---- MODULE Spec2Model ----
(***************************************************************************)
(* parrotcore: voice profiles, enrollment jobs, TTS / cover jobs and the   *)
(* Celery tasks that run them.                                             *)
(*                                                                         *)
(* One voice profile is modelled, with its samples, the job rows of the    *)
(* four task kinds, the HTTP requests in flight (each holding the profile  *)
(* object it loaded), the broker's task messages and the task executions.  *)
(***************************************************************************)
EXTENDS Integers, Sequences, FiniteSets, TLC

(***************************************************************************)
(* Bounds of the model.                                                    *)
(***************************************************************************)
MaxJobs == 2
MaxSamples == 3
MaxReqs == 1
MaxPolls == 2
Timeout == 150
MaxLatency == 1
MaxClientPolls == 80
MaxText == 7
MaxTextLength == 4

(***************************************************************************)
(* Program constants.                                                      *)
(***************************************************************************)
MIN_SINGING_SAMPLES == 3
PITCH_MIN == -12
PITCH_MAX == 12
DOWNLOAD_SPAN == 40

JobIds == 1..MaxJobs
ReqIds == 1..MaxReqs

SampleType == {"speaking", "singing"}
TaskKinds == {"speaking", "singing", "tts", "cover"}

\* VoiceProfileStatus
VoiceProfileStatus == {"pending", "enrolling", "ready", "failed"}

\* EnrollmentJobStatus / JobStatus ("none": no row with that id)
JobStatus == {"pending", "queued", "processing", "completed", "failed", "cancelled"}

\* the error taxonomy of the specification, as the kinds of exception a task meets
ErrorKinds == {"InvalidInput", "NotFound", "EngineFailure", "TransientInfrastructure", "Timeout"}

----------------------------------------------------------------------------
(***************************************************************************)
(* Text: strings are sequences of one-character strings.                   *)
(***************************************************************************)
UpperToLower ==
  ("A" :> "a") @@ ("B" :> "b") @@ ("C" :> "c") @@ ("D" :> "d") @@ ("E" :> "e") @@
  ("F" :> "f") @@ ("G" :> "g") @@ ("H" :> "h") @@ ("I" :> "i") @@ ("J" :> "j") @@
  ("K" :> "k") @@ ("L" :> "l") @@ ("M" :> "m") @@ ("N" :> "n") @@ ("O" :> "o") @@
  ("P" :> "p") @@ ("Q" :> "q") @@ ("R" :> "r") @@ ("S" :> "s") @@ ("T" :> "t") @@
  ("U" :> "u") @@ ("V" :> "v") @@ ("W" :> "w") @@ ("X" :> "x") @@ ("Y" :> "y") @@
  ("Z" :> "z")

\* str.lower()
Lower(s) ==
  [i \in 1..Len(s) |-> IF s[i] \in DOMAIN UpperToLower THEN UpperToLower[s[i]] ELSE s[i]]

\* the Python test `p in s` on strings
Contains(s, p) ==
  \E i \in 1..(Len(s) - Len(p) + 1) : SubSeq(s, i, i + Len(p) - 1) = p

Whitespace == {" ", "\t", "\n"}

RECURSIVE LStrip(_)
LStrip(s) ==
  IF s # << >> /\ Head(s) \in Whitespace THEN LStrip(Tail(s)) ELSE s

RECURSIVE RStrip(_)
RStrip(s) ==
  IF s # << >> /\ s[Len(s)] \in Whitespace THEN RStrip(SubSeq(s, 1, Len(s) - 1)) ELSE s

\* str.strip()
Strip(s) == RStrip(LStrip(s))

\* input texts a client sends to POST /tts/
Texts == { << >>, <<" ">>, <<" ", "h", "i", " ">> }

\* pitch_shift values a caller passes to create_cover_job
PitchShifts == {-13, -12, 12, 13}

----------------------------------------------------------------------------
(***************************************************************************)
(* The remote-GPU client's status messages and the progress callback.      *)
(***************************************************************************)
MsgSubmitted ==
  <<"J", "o", "b", " ", "s", "u", "b", "m", "i", "t", "t", "e", "d", " ", "t", "o", " ",
    "R", "u", "n", "P", "o", "d", " ", "G", "P", "U", " ", "(", "c", "o", "l", "d", " ",
    "s", "t", "a", "r", "t", " ", "~", "3", "0", "-", "6", "0", "s", ")">>
MsgQueued ==
  <<"J", "o", "b", " ", "q", "u", "e", "u", "e", "d", ",", " ", "w", "a", "i", "t", "i",
    "n", "g", " ", "f", "o", "r", " ", "G", "P", "U", ".", ".", ".">>
MsgAllocated ==
  <<"G", "P", "U", " ", "a", "l", "l", "o", "c", "a", "t", "e", "d", ",", " ", "t", "r",
    "a", "i", "n", "i", "n", "g", " ", "i", "n", " ", "p", "r", "o", "g", "r", "e", "s",
    "s", ".", ".", ".">>
MsgStatusPrefix == <<"S", "t", "a", "t", "u", "s", ":", " ">>
\* f"Training complete! ({elapsed/60:.1f} minutes)" for an elapsed time of 90 s
MsgTrainingComplete ==
  <<"T", "r", "a", "i", "n", "i", "n", "g", " ", "c", "o", "m", "p", "l", "e", "t", "e",
    "!", " ", "(", "1", ".", "5", " ", "m", "i", "n", "u", "t", "e", "s", ")">>

\* statuses run_request.status() can report ("CANCELLED" stands for every
\* status the client has no branch for)
RemoteStatuses == {"IN_QUEUE", "IN_PROGRESS", "COMPLETED", "FAILED", "CANCELLED"}

StatusChars ==
  ("IN_QUEUE" :> <<"I", "N", "_", "Q", "U", "E", "U", "E">>) @@
  ("IN_PROGRESS" :> <<"I", "N", "_", "P", "R", "O", "G", "R", "E", "S", "S">>) @@
  ("COMPLETED" :> <<"C", "O", "M", "P", "L", "E", "T", "E", "D">>) @@
  ("FAILED" :> <<"F", "A", "I", "L", "E", "D">>) @@
  ("CANCELLED" :> <<"C", "A", "N", "C", "E", "L", "L", "E", "D">>)

\* the message train_rvc_model hands to progress_callback on a status change
StatusMessage(status) ==
  IF status = "IN_QUEUE" THEN MsgQueued
  ELSE IF status = "IN_PROGRESS" THEN MsgAllocated
  ELSE MsgStatusPrefix \o StatusChars[status]

KwSubmitted == <<"s", "u", "b", "m", "i", "t", "t", "e", "d">>
KwQueued == <<"q", "u", "e", "u", "e", "d">>
KwGpu == <<"g", "p", "u">>
KwAllocated == <<"a", "l", "l", "o", "c", "a", "t", "e", "d">>
KwTraining == <<"t", "r", "a", "i", "n", "i", "n", "g">>
KwProgress == <<"p", "r", "o", "g", "r", "e", "s", "s">>
KwComplete == <<"c", "o", "m", "p", "l", "e", "t", "e">>

Min(a, b) == IF a < b THEN a ELSE b

\* progress_callback: the progress_percent it saves for a message, given the
\* value refresh_from_db() read
progress_callback(message, previous) ==
  LET message_lower == Lower(message) IN
  IF Contains(message_lower, KwSubmitted) \/ Contains(message_lower, KwQueued) THEN 15
  ELSE IF Contains(message_lower, KwGpu) /\ Contains(message_lower, KwAllocated) THEN 20
  ELSE IF Contains(message_lower, KwTraining) \/ Contains(message_lower, KwProgress)
       THEN Min(previous + 5, 90)
  ELSE IF Contains(message_lower, KwComplete) THEN 95
  ELSE previous

----------------------------------------------------------------------------
(***************************************************************************)
(* State.                                                                  *)
(***************************************************************************)
VARIABLES
  profile,   \* the VoiceProfile row
  samples,   \* number of VoiceSample rows of the profile, per sample_type
  jobs,      \* the job rows (VoiceEnrollmentJob, TTSJob, CoverJob), by id
  audio,     \* number of GeneratedAudio rows, per job id
  nextJob,   \* number of job ids handed out so far
  reqs,      \* HTTP requests in flight, each with the profile object it loaded
  broker,    \* task messages waiting in the broker
  running,   \* the task execution of each job, if one is running
  ended,     \* how the last execution of each job's task ended
  client,    \* a call of RunPodService.train_rvc_model
  access,    \* the resources of two users and the last owner-scoped request
  deletion,  \* a call of VoiceProfileService.delete_voice_profile
  cover,     \* a call of SongCoverPipeline.create_cover
  chunker,   \* a call of SynthesisPipeline.chunk_text
  reference, \* a call of ChatterboxWrapper.enroll / F5TTSWrapper.enroll
  handler,   \* a call of the serverless handler train_rvc_model
  trainer    \* a call of RVCTrainer.train_model

vars == <<profile, samples, jobs, audio, nextJob, reqs, broker, running, ended,
          client, access, deletion, cover, chunker, reference, handler, trainer>>

\* VoiceProfileService.create_voice_profile: the profile as created
create_voice_profile ==
  [status |-> "pending", speaking_status |-> "pending", singing_status |-> "pending",
   embedding_path |-> "", chatterbox_embedding_path |-> "", rvc_model_path |-> ""]

NoJob ==
  [kind |-> "none", status |-> "none", progress_percent |-> 0,
   error_message |-> "", celery_task_id |-> FALSE]

NoReq ==
  [op |-> "idle", job_type |-> "none", phase |-> "none", obj |-> create_voice_profile,
   job |-> 0, row |-> NoJob, text |-> << >>, pitch_shift |-> 0]

\* a task execution: where it stands, self.request.retries, the loop
\* counters, whether progress_callback ran in its last step, whether the
\* soft time limit has been raised in it, and the storage key it has
\* downloaded to embedding_local
NoRun ==
  [pc |-> "idle", retries |-> 0, idx |-> 0, total_samples |-> 0, polls |-> 0,
   last_status |-> "None", called |-> FALSE, soft |-> FALSE, embedding |-> ""]

\* the executions of a job's task so far: their number, and how the last
\* one ended (the exception it met, whether a time limit ended it)
NoEnd == [execs |-> 0, how |-> "none", exc |-> "none", timed |-> FALSE]

\* the payload of a remote job that has none yet; "absent" stands for a
\* key the payload does not have
NoOutput == [success |-> FALSE, error |-> "absent", model_size_mb |-> 0]

NoResult == [kind |-> "none", message |-> << >>, value |-> NoOutput]

\* no call of train_rvc_model is under way
NoClient ==
  [pc |-> "idle", poll_count |-> 0, elapsed |-> 0, status |-> "None",
   output |-> NoOutput, wait_time |-> 0, result |-> NoResult]

Users == {"alice", "bob"}

\* the user column of a row that does not exist; as the user argument of a
\* selector, the default None
NoUser == "nobody"

Tables == {"profile", "tts", "cover"}

Response(status, body) == [status |-> status, body |-> body]

NoResponse == Response(0, "none")

NoSamples == [t \in SampleType |-> 0]

\* no owner-scoped request has been made, and no row exists
NoAccess ==
  [pc |-> "idle", user |-> NoUser, endpoint |-> "none", valid |-> TRUE,
   owner |-> [t \in Tables |-> NoUser], obj |-> create_voice_profile,
   samples |-> NoSamples,
   before |-> [owner |-> [t \in Tables |-> NoUser], obj |-> create_voice_profile,
               samples |-> NoSamples],
   response |-> NoResponse]

\* no call of delete_voice_profile is under way
NoDeletion ==
  [pc |-> "idle", row |-> TRUE, idx |-> 0,
   blobs |-> [samples |-> {}, keys |-> {}], warnings |-> 0]

\* CoverResult(...): whether it succeeded, its error text, and which of
\* its path fields are set
CoverResult(success, error_message) ==
  [success |-> success, error_message |-> error_message, output_path |-> FALSE,
   vocals_path |-> FALSE, instrumentals_path |-> FALSE,
   converted_vocals_path |-> FALSE]

\* no call of create_cover is under way: the pipeline's keep_intermediates,
\* the arguments, whether the call made a temporary directory, the
\* directories on disk, the stages invoked, the intermediate files they
\* produced, and whether the output file was written
NoCover ==
  [pc |-> "idle", keep_intermediates |-> FALSE, song |-> FALSE, embedding |-> FALSE,
   work_dir |-> "None", temp_dir |-> FALSE, disk |-> {}, calls |-> << >>,
   produced |-> {}, output |-> FALSE, result |-> CoverResult(FALSE, "none")]

\* no call of synthesize is under way: the text, the pipeline's
\* max_text_length, chunk_text's locals sentences, current and chunks, the
\* engine calls made (the chunk given and how the call ended), whether the
\* output file was written, and the AudioResult (chunk: the chunk it is the
\* result of, 0 for the whole text)
NoChunker ==
  [pc |-> "idle", text |-> << >>, max_text_length |-> 0, sentences |-> << >>,
   idx |-> 0, current |-> << >>, chunks |-> << >>, engine_calls |-> << >>,
   saved |-> FALSE, result |-> [success |-> FALSE, error_message |-> "none", chunk |-> 0]]

\* no call of enroll is under way.  The pipeline's part: the files given,
\* skip_validation, validate_samples' position and its lists valid and
\* errors (positions in files), whether the engine was called and with
\* which samples.  The engine's part: the durations of the samples given, the
\* locals total_duration, best_sample (a position in the list, 0 for None)
\* and best_duration, and the result
NoReference ==
  [pc |-> "idle", files |-> << >>, skip_validation |-> FALSE, vidx |-> 0,
   valid |-> << >>, errors |-> << >>, called |-> FALSE, received |-> << >>,
   durations |-> << >>, idx |-> 0, total_duration |-> 0,
   best_sample |-> 0, best_duration |-> 0,
   result |-> [sample_count |-> 0, total_duration_seconds |-> 0,
               success |-> FALSE, source_file |-> 0]]

\* no call of the serverless handler is under way: the payload (number of
\* sample URLs, whether it has an upload URL, epochs, batch_size), the
\* device, the downloads made, the TrainingConfig built, whether the trainer
\* was constructed, train_model run and the model uploaded, the failures
\* met outside the handler's own code, and the result
NoHandler ==
  [pc |-> "idle", sample_urls |-> 0, upload_url |-> FALSE, epochs |-> 0,
   batch_size |-> 0, device |-> "cpu", downloads |-> 0,
   config |-> [sample_rate |-> 0, total_epochs |-> 0, batch_size |-> 0,
               save_frequency |-> 0, cache_data |-> FALSE, f0_method |-> "none"],
   constructed |-> FALSE, trained |-> FALSE, uploaded |-> FALSE, faults |-> {},
   result |-> [success |-> FALSE, error |-> "none"]]

\* no call of train_model is under way: the number of samples, which weights
\* exist under /app/assets, the stages entered with what they met, the
\* percentages given to progress_callback, whether generator and index
\* files were found in logs_dir, whether the except clause was entered, and
\* the TrainingResult
NoTrainer ==
  [pc |-> "idle", samples |-> 0, hubert_model |-> FALSE, pretrain_g |-> FALSE,
   pretrain_d |-> FALSE, calls |-> <<>>, reported |-> <<>>,
   model_files |-> FALSE, index_files |-> FALSE, raised |-> FALSE,
   result |-> [model_path |-> "none", index_path |-> "none", success |-> FALSE,
               error_message |-> "none"]]

Init ==
  /\ profile = create_voice_profile
  /\ samples = [t \in SampleType |-> 0]
  /\ jobs = [j \in JobIds |-> NoJob]
  /\ audio = [j \in JobIds |-> 0]
  /\ nextJob = 0
  /\ reqs = [r \in ReqIds |-> NoReq]
  /\ broker = {}
  /\ running = [j \in JobIds |-> NoRun]
  /\ ended = [j \in JobIds |-> NoEnd]
  /\ client = NoClient
  /\ access = NoAccess
  /\ deletion = NoDeletion
  /\ cover = NoCover
  /\ chunker = NoChunker
  /\ reference = NoReference
  /\ handler = NoHandler
  /\ trainer = NoTrainer

----------------------------------------------------------------------------
(***************************************************************************)
(* The profile row.                                                        *)
(***************************************************************************)
\* VoiceProfile.save: the legacy sync made on the object before it is written
\* (the status branch needs an object without a primary key; the key is a
\* UUID default, so the branch is never taken)
VoiceProfile_save(obj) ==
  IF obj.chatterbox_embedding_path # ""
    THEN [obj EXCEPT !.embedding_path = obj.chatterbox_embedding_path]
    ELSE obj

\* save(update_fields=...): only the listed columns of the row are written
SaveFields(row, obj, update_fields) ==
  LET o == VoiceProfile_save(obj) IN
  [f \in DOMAIN row |-> IF f \in update_fields THEN o[f] ELSE row[f]]

StatusField(job_type) ==
  IF job_type = "speaking" THEN "speaking_status" ELSE "singing_status"

\* an enroll transaction has written the profile row and not yet committed:
\* the database holds the row locked against other writers
ProfileLocked ==
  \E r \in ReqIds : reqs[r].op = "enroll" /\ reqs[r].phase = "sent"

\* a service call has returned or raised and its view is sending the
\* response; the view does nothing else in between, and nothing else is
\* interleaved with it here
Answering ==
  \E r \in ReqIds : reqs[r].phase \in {"rejected", "error", "accepted"}

\* the lowest request slot not in use
FreeReq(r) ==
  /\ reqs[r].op = "idle"
  /\ \A q \in ReqIds : q < r => reqs[q].op # "idle"

NewRow(kind) == [NoJob EXCEPT !.kind = kind, !.status = "pending"]

\* job.celery_task_id = task.id; job.status = QUEUED; job.save(...)
QueueRow(row) == [row EXCEPT !.status = "queued", !.celery_task_id = TRUE]

\* the message send_task / delay puts on the broker
TaskMessage(j, kind) == [job |-> j, kind |-> kind, retries |-> 0, countdown |-> 0]

\* enroll_voice_profile without its "already enrolling" check
enroll_rejects_no_samples_only(obj, job_type, sample_count) ==
  sample_count = 0

\* enroll_voice_profile: the two ValueError checks
enroll_rejects(obj, job_type, sample_count) ==
  \/ sample_count = 0
  \/ obj[StatusField(job_type)] = "enrolling"

\* enroll_voice_profile without its "Legacy sync" assignment
enroll_set_status_no_legacy(obj, job_type) ==
  IF job_type = "speaking"
    THEN [obj EXCEPT !.speaking_status = "enrolling"]
    ELSE [obj EXCEPT !.singing_status = "enrolling"]

\* enroll_voice_profile: the status fields set on the profile object
enroll_set_status(obj, job_type) ==
  IF job_type = "speaking"
    THEN [obj EXCEPT !.speaking_status = "enrolling", !.status = "enrolling"]
    ELSE [obj EXCEPT !.singing_status = "enrolling"]

\* enroll_voice_profile: voice_profile.save(update_fields=[...])
enroll_save(row, obj, job_type) ==
  SaveFields(row, enroll_set_status(obj, job_type),
             {"status", "speaking_status", "singing_status"})

\* create_tts_job testing the text before it is trimmed
create_tts_job_rejects_untrimmed(obj, input_text) ==
  \/ obj.status # "ready"
  \/ input_text = << >>

\* create_tts_job: the two ValueError checks
create_tts_job_rejects(obj, input_text) ==
  \/ obj.status # "ready"
  \/ Strip(input_text) = << >>

\* create_cover_job: the two ValueError checks
create_cover_job_rejects(obj, pitch_shift) ==
  \/ obj.status # "ready"
  \/ ~(PITCH_MIN <= pitch_shift /\ pitch_shift <= PITCH_MAX)

----------------------------------------------------------------------------
(***************************************************************************)
(* Sample upload, the views that load the profile, and the services that   *)
(* create jobs.  A service call runs in one database transaction           *)
(* (@transaction.atomic): the call validates, stages its rows and sends    *)
(* the task message; the rows become visible when the transaction commits. *)
(* A request keeps its outcome in its phase until the view has answered:   *)
(*   loaded -> rejected | error | sent -> accepted                         *)
(***************************************************************************)
\* voices/views.py _upload_sample -> VoiceProfileService.add_sample
add_sample(sample_type) ==
  /\ ~Answering
  /\ samples[sample_type] < MaxSamples
  /\ samples' = [samples EXCEPT ![sample_type] = @ + 1]
  /\ UNCHANGED <<profile, jobs, audio, nextJob, reqs,
                 broker, running, ended, client, access, deletion,
                 cover, chunker, reference, handler, trainer>>

\* a view resolves the profile (get_voice_profile / get_object_or_404) and
\* holds the object until it calls the service
LoadProfile(r, op, job_type) ==
  /\ ~Answering
  /\ FreeReq(r)
  /\ reqs' = [reqs EXCEPT ![r] =
                [NoReq EXCEPT !.op = op, !.job_type = job_type,
                              !.phase = "loaded", !.obj = profile]]
  /\ UNCHANGED <<profile, samples, jobs, audio, nextJob,
                 broker, running, ended, client, access, deletion,
                 cover, chunker, reference, handler, trainer>>

\* the service raised ValueError: nothing was written
Rejected(r, req) ==
  /\ reqs' = [reqs EXCEPT ![r] = [req EXCEPT !.phase = "rejected"]]
  /\ UNCHANGED <<broker, nextJob,
                 cover, chunker, reference, handler, trainer>>

\* the service created its row (PENDING) and send_task / delay raised: the
\* transaction is rolled back
BrokerError(r, req, kind) ==
  /\ reqs' = [reqs EXCEPT ![r] = [req EXCEPT !.phase = "error", !.row = NewRow(kind)]]
  /\ UNCHANGED <<broker, nextJob,
                 cover, chunker, reference, handler, trainer>>

\* the service created its row (PENDING), sent the task and saved the row
\* as QUEUED; the transaction is still open
Sent(r, req, kind) ==
  /\ nextJob' = nextJob + 1
  /\ broker' = broker \cup {TaskMessage(nextJob + 1, kind)}
  /\ reqs' = [reqs EXCEPT ![r] =
                [req EXCEPT !.phase = "sent", !.job = nextJob + 1,
                            !.row = QueueRow(NewRow(kind))]]

\* VoiceProfileService.enroll_voice_profile, up to the end of its body
enroll_voice_profile(r) ==
  /\ ~Answering
  /\ reqs[r].op = "enroll" /\ reqs[r].phase = "loaded"
  /\ LET req == reqs[r] IN
     IF enroll_rejects(req.obj, req.job_type, samples[req.job_type])
       THEN Rejected(r, req)
       ELSE /\ ~ProfileLocked
            /\ nextJob < MaxJobs
            /\ \/ BrokerError(r, req, req.job_type)
               \/ Sent(r, req, req.job_type)
  /\ UNCHANGED <<profile, samples, jobs, audio, running, ended, client, access, deletion,
                 cover, chunker, reference, handler, trainer>>

\* TTSJobService.create_tts_job, up to the end of its body
create_tts_job(r, input_text) ==
  LET req == [reqs[r] EXCEPT !.text = input_text] IN
  /\ ~Answering
  /\ req.op = "create_tts" /\ req.phase = "loaded"
  /\ IF create_tts_job_rejects(req.obj, input_text)
       THEN Rejected(r, req)
       ELSE /\ nextJob < MaxJobs
            /\ \/ BrokerError(r, req, "tts")
               \/ Sent(r, req, "tts")
  /\ UNCHANGED <<profile, samples, jobs, audio, running, ended, client, access, deletion,
                 cover, chunker, reference, handler, trainer>>

\* CoverJobService.create_cover_job, up to the end of its body
create_cover_job(r, pitch_shift) ==
  LET req == [reqs[r] EXCEPT !.pitch_shift = pitch_shift] IN
  /\ ~Answering
  /\ req.op = "create_cover" /\ req.phase = "loaded"
  /\ IF create_cover_job_rejects(req.obj, pitch_shift)
       THEN Rejected(r, req)
       ELSE /\ nextJob < MaxJobs
            /\ \/ BrokerError(r, req, "cover")
               \/ Sent(r, req, "cover")
  /\ UNCHANGED <<profile, samples, jobs, audio, running, ended, client, access, deletion,
                 cover, chunker, reference, handler, trainer>>

\* the transaction.atomic block of a service call commits: the staged rows
\* become visible and the call returns its job
Commit(r) ==
  LET req == reqs[r] IN
  /\ ~Answering
  /\ req.phase = "sent"
  /\ jobs' = [jobs EXCEPT ![req.job] = req.row]
  /\ profile' = IF req.op = "enroll"
                  THEN enroll_save(profile, req.obj, req.job_type)
                  ELSE profile
  /\ reqs' = [reqs EXCEPT ![r] = [req EXCEPT !.phase = "accepted"]]
  /\ UNCHANGED <<samples, audio, nextJob, broker, running, ended, client, access, deletion,
                 cover, chunker, reference, handler, trainer>>

\* the view sends its response (202 / 201, 400 or 500) and the request ends
Respond(r) ==
  /\ reqs[r].phase \in {"rejected", "error", "accepted"}
  /\ reqs' = [reqs EXCEPT ![r] = NoReq]
  /\ UNCHANGED <<profile, samples, jobs, audio, nextJob,
                 broker, running, ended, client, access, deletion,
                 cover, chunker, reference, handler, trainer>>

----------------------------------------------------------------------------
(***************************************************************************)
(* The Celery tasks.                                                       *)
(***************************************************************************)
\* @shared_task(bind=True, max_retries=...)
max_retries(kind) == IF kind = "cover" THEN 2 ELSE 3

\* countdown=60 * (self.request.retries + 1); 120 * ... for run_cover_job
retry_countdown(kind, retries) ==
  IF kind = "cover" THEN 120 * (retries + 1) ELSE 60 * (retries + 1)

\* the except handler's test with <= for <
retry_allowed_once_more(kind, retries, exc) == retries <= max_retries(kind)

\* the except handler's test before self.retry
retry_allowed(kind, retries, exc) == retries < max_retries(kind)

IsEnrollment(kind) == kind \in SampleType

EmbeddingKey == "embeddings/chatterbox.pt"
ModelKey == "models/rvc_model.pth"

\* mark_enrollment_complete with the artifact's column left out of
\* update_fields
mark_enrollment_complete_status_only(row, job_type, model_path) ==
  IF job_type = "speaking"
    THEN SaveFields(row,
                    [row EXCEPT !.speaking_status = "ready",
                                !.chatterbox_embedding_path = model_path,
                                !.embedding_path = model_path,
                                !.status = "ready"],
                    {"speaking_status", "status"})
    ELSE SaveFields(row,
                    [row EXCEPT !.singing_status = "ready",
                                !.rvc_model_path = model_path],
                    {"singing_status"})

\* VoiceProfileService.mark_enrollment_complete: the profile row it leaves.
\* Every column of update_fields is assigned before the save.
mark_enrollment_complete(row, job_type, model_path) ==
  IF job_type = "speaking"
    THEN SaveFields(row,
                    [row EXCEPT !.speaking_status = "ready",
                                !.chatterbox_embedding_path = model_path,
                                !.embedding_path = model_path,
                                !.status = "ready"],
                    {"speaking_status", "chatterbox_embedding_path",
                     "embedding_path", "status"})
    ELSE SaveFields(row,
                    [row EXCEPT !.singing_status = "ready",
                                !.rvc_model_path = model_path],
                    {"singing_status", "rvc_model_path"})

\* VoiceProfileService.mark_enrollment_failed: the profile row it leaves
mark_enrollment_failed(row, job_type) ==
  IF job_type = "speaking"
    THEN SaveFields(row,
                    [row EXCEPT !.speaking_status = "failed", !.status = "failed"],
                    {"speaking_status", "status"})
    ELSE SaveFields(row, [row EXCEPT !.singing_status = "failed"], {"singing_status"})

\* mark_job_failed writing the status nothing else writes
FailedRow_cancelled(row, error_message) ==
  [row EXCEPT !.status = "cancelled", !.error_message = error_message]

\* the job row after mark_enrollment_failed / mark_job_failed
FailedRow(row, error_message) ==
  [row EXCEPT !.status = "failed", !.error_message = error_message]

\* str(e): the text of an exception, never empty
ErrorText(exc) == "error"

\* the job row after mark_enrollment_complete / mark_job_complete
CompletedRow(row) ==
  [row EXCEPT !.status = "completed", !.progress_percent = 100]

\* the job row after the "Mark as processing" save at the top of a task;
\* only run_singing_enrollment lists progress_percent in update_fields
ProcessingRow(row) ==
  IF row.kind = "singing"
    THEN [row EXCEPT !.status = "processing", !.progress_percent = 0]
    ELSE [row EXCEPT !.status = "processing"]

\* number of storage downloads a task makes before it calls the engine
Downloads(kind) ==
  IF kind = "speaking" THEN samples["speaking"]
  ELSE IF kind = "tts" THEN 1
  ELSE 2

\* the progress_percent saved after the idx-th download
DownloadProgress(kind, idx, total, previous) ==
  IF kind = "speaking" THEN (idx * DOWNLOAD_SPAN) \div total
  ELSE IF kind = "tts" THEN 20
  ELSE IF idx = total THEN 10 ELSE previous

\* the progress_percent saved after the engine call
EngineProgress(kind) == IF kind = "cover" THEN 90 ELSE 80

\* a worker takes the task message of job j and runs the task up to its
\* first save
TaskStart(j) ==
  \E m \in broker :
    /\ m.job = j
    /\ jobs[j].status # "none"
    /\ running[j].pc = "idle"
    /\ broker' = broker \ {m}
    /\ jobs' = [jobs EXCEPT ![j] = ProcessingRow(@)]
    /\ ended' = [ended EXCEPT ![j] = [NoEnd EXCEPT !.execs = ended[j].execs + 1]]
    /\ running' = [running EXCEPT ![j] =
         [NoRun EXCEPT
            !.retries = m.retries,
            !.total_samples = IF m.kind = "singing" THEN 0 ELSE Downloads(m.kind),
            !.pc = IF m.kind = "singing" THEN "count"
                   ELSE IF Downloads(m.kind) = 0 THEN "engine"
                   ELSE "download"]]
    /\ UNCHANGED <<profile, samples, audio, nextJob, reqs, client, access, deletion,
                   cover, chunker, reference, handler, trainer>>

\* the message self.retry(exc=e, countdown=...) puts on the broker
RetryMessage(j, kind, retries) ==
  [job |-> j, kind |-> kind, retries |-> retries + 1,
   countdown |-> retry_countdown(kind, retries)]

\* the except handler of a task: mark failed, then retry if retries remain
Fail(j, exc, timed) ==
  LET kind == jobs[j].kind
      t == running[j] IN
  /\ IsEnrollment(kind) => ~ProfileLocked
  /\ jobs' = [jobs EXCEPT ![j] = FailedRow(@, ErrorText(exc))]
  /\ profile' = IF IsEnrollment(kind) THEN mark_enrollment_failed(profile, kind) ELSE profile
  /\ broker' = IF retry_allowed(kind, t.retries, exc)
                 THEN broker \cup {RetryMessage(j, kind, t.retries)}
                 ELSE broker
  /\ running' = [running EXCEPT ![j] = NoRun]
  /\ ended' = [ended EXCEPT ![j] = [@ EXCEPT !.how = "failed", !.exc = exc,
                                              !.timed = timed]]
  /\ UNCHANGED <<samples, audio, nextJob, reqs, client, access, deletion,
                 cover, chunker, reference, handler, trainer>>

\* the task calls mark_enrollment_complete / mark_job_complete, which
\* commits; the task is still inside its try block (the with block's exit,
\* the last log lines)
Complete(j) ==
  LET kind == jobs[j].kind IN
  /\ IsEnrollment(kind) => ~ProfileLocked
  /\ jobs' = [jobs EXCEPT ![j] = CompletedRow(@)]
  /\ profile' = IF IsEnrollment(kind)
                  THEN mark_enrollment_complete(profile, kind,
                         IF kind = "speaking" THEN EmbeddingKey ELSE ModelKey)
                  ELSE profile
  /\ audio' = IF IsEnrollment(kind) THEN audio ELSE [audio EXCEPT ![j] = @ + 1]
  /\ running' = [running EXCEPT ![j].pc = "return", ![j].called = FALSE]
  /\ ended' = [ended EXCEPT ![j] = [@ EXCEPT !.how = "completed"]]
  /\ UNCHANGED <<samples, nextJob, reqs, broker, client, access, deletion,
                 cover, chunker, reference, handler, trainer>>

\* the task leaves its try block and returns
TaskReturn(j) ==
  /\ running[j].pc = "return"
  /\ running' = [running EXCEPT ![j] = NoRun]
  /\ UNCHANGED <<profile, samples, jobs, audio, nextJob, reqs, broker, ended,
                 client, access, deletion,
                 cover, chunker, reference, handler, trainer>>

\* one step inside the try block that only saves progress and moves on
Step(j, pc, progress_percent, t) ==
  /\ jobs' = [jobs EXCEPT ![j].progress_percent = progress_percent]
  /\ running' = [running EXCEPT ![j] = [t EXCEPT !.pc = pc]]
  /\ UNCHANGED <<profile, samples, audio, nextJob, reqs, broker, ended, client, access, deletion,
                 cover, chunker, reference, handler, trainer>>

\* the storage key run_tts_job and run_cover_job download to
\* embedding_local: storage.download_file(job.voice_profile.embedding_path, ...)
EmbeddingDownload(obj) == obj.embedding_path

\* whether the idx-th download of a task is the one to embedding_local
IsEmbeddingDownload(kind, idx) ==
  \/ kind = "tts" /\ idx = 1
  \/ kind = "cover" /\ idx = 2

\* storage.download_file in run_speaking_enrollment, run_tts_job, run_cover_job
Download(j) ==
  LET t == running[j]
      kind == jobs[j].kind IN
  /\ t.pc = "download"
  /\ \/ \E exc \in {"TransientInfrastructure", "NotFound"} : Fail(j, exc, FALSE)
     \/ Step(j, IF t.idx + 1 = t.total_samples THEN "engine" ELSE "download",
             DownloadProgress(kind, t.idx + 1, t.total_samples, jobs[j].progress_percent),
             [t EXCEPT !.idx = t.idx + 1,
                       !.embedding = IF IsEmbeddingDownload(kind, t.idx + 1)
                                       THEN EmbeddingDownload(profile) ELSE @])

\* the engine call: tts_engine.enroll / synthesize / create_cover
Engine(j) ==
  LET t == running[j] IN
  /\ t.pc = "engine"
  /\ \/ Fail(j, "EngineFailure", FALSE)
     \/ Step(j, "upload", EngineProgress(jobs[j].kind), t)

\* storage.upload_file, then the mark-complete service call
Upload(j) ==
  /\ running[j].pc = "upload"
  /\ \/ Fail(j, "TransientInfrastructure", FALSE)
     \/ Complete(j)

----------------------------------------------------------------------------
(***************************************************************************)
(* run_singing_enrollment and RunPodService.train_rvc_model.               *)
(***************************************************************************)
\* the task going on whatever the number of samples
too_few_samples_never(total_samples) == FALSE

\* if total_samples < 3: raise ValueError(...)
too_few_samples(total_samples) == total_samples < MIN_SINGING_SAMPLES

\* the sample count check and the first progress save
CountSamples(j) ==
  LET t == running[j]
      total_samples == samples["singing"] IN
  /\ t.pc = "count"
  /\ IF too_few_samples(total_samples)
       THEN Fail(j, "InvalidInput", FALSE)
       ELSE Step(j, "urls", 5, [t EXCEPT !.total_samples = total_samples])

\* storage.get_presigned_url for every sample and for the model key
PresignUrls(j) ==
  LET t == running[j] IN
  /\ t.pc = "urls"
  /\ \/ Fail(j, "TransientInfrastructure", FALSE)
     \/ Step(j, "submit", 10, t)

\* get_runpod_service() and endpoint.run(...), then the first callback
Submit(j) ==
  LET t == running[j] IN
  /\ t.pc = "submit"
  /\ \/ Fail(j, "TransientInfrastructure", FALSE)
     \/ Step(j, "poll", progress_callback(MsgSubmitted, jobs[j].progress_percent),
             [t EXCEPT !.called = TRUE])

\* one run_request.status() call of the poll loop and the callback on a
\* status change
Poll(j, status) ==
  LET t == running[j] IN
  /\ t.pc = "poll"
  /\ \/ Fail(j, "TransientInfrastructure", FALSE)
     \/ Step(j, "check",
             IF status # t.last_status
               THEN progress_callback(StatusMessage(status), jobs[j].progress_percent)
               ELSE jobs[j].progress_percent,
             [t EXCEPT !.polls = t.polls + 1, !.last_status = status,
                       !.called = (status # t.last_status)])

\* the rest of the loop body: terminal statuses, the timeout check, the sleep
Check(j) ==
  LET t == running[j] IN
  /\ t.pc = "check"
  /\ IF t.last_status = "COMPLETED"
       THEN \/ \* output.get('success'): the completion callback, then return
               Step(j, "finish",
                    progress_callback(MsgTrainingComplete, jobs[j].progress_percent),
                    [t EXCEPT !.called = TRUE])
            \/ Fail(j, "EngineFailure", FALSE)
       ELSE IF t.last_status = "FAILED"
       THEN Fail(j, "EngineFailure", FALSE)
       ELSE \/ \* elapsed > self.timeout
               Fail(j, "Timeout", FALSE)
            \/ /\ t.polls < MaxPolls
               /\ Step(j, "poll", jobs[j].progress_percent, [t EXCEPT !.called = FALSE])

\* train_rvc_model has returned: the final progress save
Finish(j) ==
  LET t == running[j] IN
  /\ t.pc = "finish"
  /\ Step(j, "complete", 100, [t EXCEPT !.called = FALSE])

\* VoiceProfileService.mark_enrollment_complete(job, model_key)
FinishComplete(j) ==
  /\ running[j].pc = "complete"
  /\ Complete(j)

----------------------------------------------------------------------------
(***************************************************************************)
(* The queue's time limits (CELERY_TASK_SOFT_TIME_LIMIT / _TIME_LIMIT).    *)
(***************************************************************************)
\* the soft limit raises SoftTimeLimitExceeded, an Exception, inside the
\* running task: the task's except handler catches it
SoftTimeLimit(j) ==
  /\ running[j].pc # "idle"
  /\ ~running[j].soft
  /\ Fail(j, "Timeout", TRUE)

\* the soft limit's exception arrived while progress_callback's own
\* try / except Exception block was running: it is logged as a warning and
\* train_rvc_model goes on
SoftTimeLimitInCallback(j) ==
  /\ running[j].pc # "idle"
  /\ running[j].called
  /\ ~running[j].soft
  /\ running' = [running EXCEPT ![j].soft = TRUE]
  /\ UNCHANGED <<profile, samples, jobs, audio, nextJob,
                 reqs, broker, ended, client, access, deletion,
                 cover, chunker, reference, handler, trainer>>

\* the hard limit: the worker process running the task is killed; none of
\* the task's code runs any more
HardTimeLimit(j) ==
  /\ running[j].pc # "idle"
  /\ running[j].soft
  /\ running' = [running EXCEPT ![j] = NoRun]
  /\ ended' = [ended EXCEPT ![j] = [@ EXCEPT !.how = "killed", !.exc = "Timeout",
                                              !.timed = TRUE]]
  /\ UNCHANGED <<profile, samples, jobs, audio, nextJob, reqs, broker, client, access, deletion,
                 cover, chunker, reference, handler, trainer>>

----------------------------------------------------------------------------
(***************************************************************************)
(* Spec: the services and the enrollment tasks of one profile.  One        *)
(* execution of a task is one step here: the worker takes the message,     *)
(* marks the job PROCESSING, and ends in mark_enrollment_complete or in    *)
(* the except handler (mark_enrollment_failed and the retry).  TTS and     *)
(* cover tasks stay on the broker; SpecTask executes them.                 *)
(***************************************************************************)
\* the worker finds no row for the job id in its message: the task logs
\* the error and returns
TaskNotFound(j) ==
  \E m \in broker :
    /\ ~Answering
    /\ m.job = j
    /\ jobs[j].status = "none"
    /\ broker' = broker \ {m}
    /\ UNCHANGED <<profile, samples, jobs, audio, nextJob,
                   reqs, running, ended, client, access, deletion,
                   cover, chunker, reference, handler, trainer>>

\* run_speaking_enrollment / run_singing_enrollment, an execution that
\* reaches mark_enrollment_complete
EnrollmentSucceeds(j) ==
  \E m \in broker :
    /\ ~Answering
    /\ m.job = j
    /\ IsEnrollment(m.kind)
    /\ jobs[j].status # "none"
    /\ m.kind = "singing" => samples["singing"] >= MIN_SINGING_SAMPLES
    /\ ~ProfileLocked
    /\ jobs' = [jobs EXCEPT ![j] = CompletedRow(ProcessingRow(@))]
    /\ profile' = mark_enrollment_complete(profile, m.kind,
                    IF m.kind = "speaking" THEN EmbeddingKey ELSE ModelKey)
    /\ broker' = broker \ {m}
    /\ UNCHANGED <<samples, audio, nextJob, reqs, running, ended, client, access, deletion,
                   cover, chunker, reference, handler, trainer>>

\* run_speaking_enrollment / run_singing_enrollment, an execution that
\* raises inside the try block
EnrollmentFails(j) ==
  \E m \in broker :
    /\ ~Answering
    /\ m.job = j
    /\ IsEnrollment(m.kind)
    /\ jobs[j].status # "none"
    /\ ~ProfileLocked
    /\ jobs' = [jobs EXCEPT ![j] = FailedRow(ProcessingRow(@), ErrorText("EngineFailure"))]
    /\ profile' = mark_enrollment_failed(profile, m.kind)
    /\ broker' = IF retry_allowed(m.kind, m.retries, "EngineFailure")
                   THEN (broker \ {m}) \cup {RetryMessage(j, m.kind, m.retries)}
                   ELSE broker \ {m}
    /\ UNCHANGED <<samples, audio, nextJob, reqs, running, ended, client, access, deletion,
                   cover, chunker, reference, handler, trainer>>

Next ==
  \/ \E t \in SampleType : add_sample(t)
  \/ \E r \in ReqIds :
       \/ \E t \in SampleType : LoadProfile(r, "enroll", t)
       \/ LoadProfile(r, "create_tts", "none")
       \/ LoadProfile(r, "create_cover", "none")
       \/ enroll_voice_profile(r)
       \/ \E text \in Texts : create_tts_job(r, text)
       \/ \E p \in PitchShifts : create_cover_job(r, p)
       \/ Commit(r)
       \/ Respond(r)
  \/ \E j \in JobIds :
       \/ TaskNotFound(j)
       \/ EnrollmentSucceeds(j)
       \/ EnrollmentFails(j)

Spec == Init /\ [][Next]_vars

----------------------------------------------------------------------------
(***************************************************************************)
(* SpecTask: one task of any kind, executed statement by statement, with   *)
(* its retries and the queue's time limits.                                *)
(***************************************************************************)
\* a profile whose speaking enrollment has completed
ReadyProfile ==
  mark_enrollment_complete(enroll_save(create_voice_profile, create_voice_profile,
                                       "speaking"),
                           "speaking", EmbeddingKey)

\* the state right after a service call has committed the job of the task:
\* an enrollment job of either mode on a new profile, or a TTS / cover job
\* on a profile whose speaking enrollment (job 1) has completed
InitTask ==
  /\ \E kind \in TaskKinds :
       IF IsEnrollment(kind)
         THEN /\ profile = enroll_save(create_voice_profile, create_voice_profile, kind)
              /\ jobs = [j \in JobIds |-> IF j = 1 THEN QueueRow(NewRow(kind)) ELSE NoJob]
              /\ broker = {TaskMessage(1, kind)}
              /\ nextJob = 1
              /\ \E n \in 1..MaxSamples :
                   samples = [t \in SampleType |-> IF t = kind THEN n ELSE 0]
         ELSE /\ profile = ReadyProfile
              /\ jobs = [j \in JobIds |->
                           IF j = 1 THEN CompletedRow(ProcessingRow(QueueRow(NewRow("speaking"))))
                           ELSE IF j = 2 THEN QueueRow(NewRow(kind))
                           ELSE NoJob]
              /\ broker = {TaskMessage(2, kind)}
              /\ nextJob = 2
              /\ samples = [t \in SampleType |-> IF t = "speaking" THEN 1 ELSE 0]
  /\ audio = [j \in JobIds |-> 0]
  /\ reqs = [r \in ReqIds |-> NoReq]
  /\ running = [j \in JobIds |-> NoRun]
  /\ ended = [j \in JobIds |-> NoEnd]
  /\ client = NoClient
  /\ access = NoAccess
  /\ deletion = NoDeletion
  /\ cover = NoCover
  /\ chunker = NoChunker
  /\ reference = NoReference
  /\ handler = NoHandler
  /\ trainer = NoTrainer

NextTask ==
  \/ add_sample("singing")
  \/ \E j \in JobIds :
       \/ TaskStart(j)
       \/ Download(j)
       \/ Engine(j)
       \/ Upload(j)
       \/ CountSamples(j)
       \/ PresignUrls(j)
       \/ Submit(j)
       \/ \E s \in RemoteStatuses : Poll(j, s)
       \/ Check(j)
       \/ Finish(j)
       \/ FinishComplete(j)
       \/ TaskReturn(j)
       \/ SoftTimeLimit(j)
       \/ SoftTimeLimitInCallback(j)
       \/ HardTimeLimit(j)

SpecTask == InitTask /\ [][NextTask]_vars

----------------------------------------------------------------------------
(***************************************************************************)
(* SpecClient: RunPodService.train_rvc_model on its own, with the clock.   *)
(* elapsed is time.time() - start_time in seconds; a status() call takes   *)
(* up to MaxLatency seconds and the remote job reports any status at any   *)
(* poll.                                                                   *)
(***************************************************************************)
\* payloads run_request.output() can return
Outputs ==
  [success : BOOLEAN, error : {"absent", "CUDA out of memory"}, model_size_mb : {12}]

\* output.get('error', 'Unknown error')
output_error(output) ==
  IF output.error = "absent" THEN "Unknown error" ELSE output.error

\* the adaptive polling interval
wait_time(poll_count) ==
  IF poll_count < 10 THEN 2
  ELSE IF poll_count < 30 THEN 5
  ELSE 10

\* the timeout test with the budget taken for minutes
timed_out_in_minutes(elapsed) == elapsed > Timeout * 60

\* elapsed > self.timeout
timed_out(elapsed) == elapsed > Timeout

\* train_rvc_model returning the payload of a COMPLETED job unexamined
train_result_unchecked(status, output) ==
  IF status = "COMPLETED"
    THEN [kind |-> "return", message |-> << >>, value |-> output]
    ELSE [kind |-> "RuntimeError",
          message |-> <<"RunPod job failed: ", output_error(output)>>,
          value |-> NoOutput]

\* what train_rvc_model does with the payload of a terminal status
train_result(status, output) ==
  IF status = "COMPLETED"
    THEN IF output.success
           THEN [kind |-> "return", message |-> << >>, value |-> output]
           ELSE [kind |-> "RuntimeError",
                 message |-> <<"Training failed: ", output_error(output)>>,
                 value |-> NoOutput]
    ELSE [kind |-> "RuntimeError",
          message |-> <<"RunPod job failed: ", output_error(output)>>,
          value |-> NoOutput]

\* an exception of the transport leaves train_rvc_model through its
\* except Exception: ... raise
ClientRaise(kind, message) ==
  /\ client' = [client EXCEPT !.pc = "done",
                              !.result = [kind |-> kind, message |-> message,
                                          value |-> NoOutput]]
  /\ UNCHANGED <<profile, samples, jobs, audio, nextJob, reqs, broker, running, ended,
                 access, deletion,
                 cover, chunker, reference, handler, trainer>>

ClientGoes(c) ==
  /\ client' = c
  /\ UNCHANGED <<profile, samples, jobs, audio, nextJob, reqs, broker, running, ended,
                 access, deletion,
                 cover, chunker, reference, handler, trainer>>

\* self.endpoint.run(...); start_time = time.time()
ClientRun ==
  /\ client.pc = "run"
  /\ \/ ClientRaise("ConnectionError", << >>)
     \/ ClientGoes([client EXCEPT !.pc = "poll"])

\* poll_count += 1; status = run_request.status()
ClientStatus(status, latency) ==
  /\ client.pc = "poll"
  /\ client.poll_count < MaxClientPolls
  /\ \/ ClientRaise("ConnectionError", << >>)
     \/ ClientGoes([client EXCEPT
                      !.poll_count = @ + 1,
                      !.elapsed = @ + latency,
                      !.status = status,
                      !.pc = IF status \in {"COMPLETED", "FAILED"} THEN "output"
                             ELSE "check"])

\* run_request.output() after COMPLETED or FAILED, and the return / raise
ClientOutput(output) ==
  /\ client.pc = "output"
  /\ \/ ClientRaise("ConnectionError", << >>)
     \/ ClientGoes([client EXCEPT !.pc = "done", !.output = output,
                                  !.result = train_result(client.status, output)])

\* the timeout check and the choice of the polling interval
ClientCheckTimeout ==
  /\ client.pc = "check"
  /\ IF timed_out(client.elapsed)
       THEN ClientRaise("TimeoutError", <<"Training exceeded timeout">>)
       ELSE ClientGoes([client EXCEPT !.pc = "sleep",
                                      !.wait_time = wait_time(client.poll_count)])

\* time.sleep(wait_time)
ClientSleep ==
  /\ client.pc = "sleep"
  /\ ClientGoes([client EXCEPT !.pc = "poll", !.elapsed = @ + client.wait_time])

InitClient ==
  /\ profile = create_voice_profile
  /\ samples = [t \in SampleType |-> 0]
  /\ jobs = [j \in JobIds |-> NoJob]
  /\ audio = [j \in JobIds |-> 0]
  /\ nextJob = 0
  /\ reqs = [r \in ReqIds |-> NoReq]
  /\ broker = {}
  /\ running = [j \in JobIds |-> NoRun]
  /\ ended = [j \in JobIds |-> NoEnd]
  /\ client = [NoClient EXCEPT !.pc = "run"]
  /\ access = NoAccess
  /\ deletion = NoDeletion
  /\ cover = NoCover
  /\ chunker = NoChunker
  /\ reference = NoReference
  /\ handler = NoHandler
  /\ trainer = NoTrainer

NextClient ==
  \/ ClientRun
  \/ \E status \in RemoteStatuses, latency \in 0..MaxLatency : ClientStatus(status, latency)
  \/ \E output \in Outputs : ClientOutput(output)
  \/ ClientCheckTimeout
  \/ ClientSleep

\* every call made returns or raises (the remote API answers every request)
SpecClient == InitClient /\ [][NextClient]_vars /\ WF_vars(NextClient)

----------------------------------------------------------------------------
(***************************************************************************)
(* SpecOwner: the views that resolve a profile or a job for the caller.    *)
(* The database holds at most one profile, one TTS job and one cover job   *)
(* under the identifiers the requests name; a request is answered in the   *)
(* order of its view:  validate -> lookup -> found -> done.                *)
(***************************************************************************)
ApiProfileEndpoints ==
  {"VoiceProfileViewSet.retrieve", "VoiceProfileViewSet.destroy",
   "VoiceProfileViewSet.samples", "VoiceProfileViewSet.enroll"}

ApiCreateEndpoints == {"TTSJobViewSet.create", "CoverJobViewSet.create"}

ApiJobEndpoints == {"TTSJobViewSet.retrieve", "CoverJobViewSet.retrieve"}

VoicesEndpoints ==
  {"voice_profile_detail.GET", "voice_profile_detail.DELETE",
   "upload_speaking_sample", "upload_singing_sample",
   "enroll_speaking", "enroll_singing",
   "get_enrollment_job.speaking", "get_enrollment_job.singing"}

Endpoints ==
  ApiProfileEndpoints \cup ApiCreateEndpoints \cup ApiJobEndpoints \cup VoicesEndpoints

\* the endpoints that read a request body with a serializer
BodyEndpoints ==
  ApiCreateEndpoints \cup
  {"VoiceProfileViewSet.samples", "upload_speaking_sample", "upload_singing_sample"}

\* the table whose identifier the request names
Table(endpoint) ==
  CASE endpoint = "TTSJobViewSet.retrieve" -> "tts"
    [] endpoint = "CoverJobViewSet.retrieve" -> "cover"
    [] OTHER -> "profile"

\* the mode an endpoint enrolls, uploads to, or asks the job of
Mode(endpoint) ==
  IF endpoint \in {"upload_singing_sample", "enroll_singing",
                   "get_enrollment_job.singing"}
    THEN "singing" ELSE "speaking"

\* get_voice_profile without its filter on the user
get_voice_profile_unscoped(row_user, user) == row_user # NoUser

\* selectors.get_voice_profile: whether a row comes back
get_voice_profile(row_user, user) ==
  IF user # NoUser
    THEN row_user # NoUser /\ row_user = user
    ELSE row_user # NoUser

\* selectors.get_tts_job: whether a row comes back
get_tts_job(row_user, user) ==
  IF user # NoUser
    THEN row_user # NoUser /\ row_user = user
    ELSE row_user # NoUser

\* selectors.get_cover_job: whether a row comes back
get_cover_job(row_user, user) ==
  IF user # NoUser
    THEN row_user # NoUser /\ row_user = user
    ELSE row_user # NoUser

\* get_object_or_404(VoiceProfile, id=profile_id, user=request.user):
\* whether a row comes back (Http404 otherwise)
get_object_or_404(row_user, user) == row_user # NoUser /\ row_user = user

\* the lookup an endpoint makes
Lookup(endpoint, owner, user) ==
  CASE endpoint \in VoicesEndpoints -> get_object_or_404(owner["profile"], user)
    [] endpoint = "TTSJobViewSet.retrieve" -> get_tts_job(owner["tts"], user)
    [] endpoint = "CoverJobViewSet.retrieve" -> get_cover_job(owner["cover"], user)
    [] OTHER -> get_voice_profile(owner["profile"], user)

\* the answer of an endpoint whose lookup found nothing
NotFound(endpoint) ==
  CASE endpoint \in VoicesEndpoints -> Response(404, "Http404")
    [] endpoint \in ApiJobEndpoints -> Response(404, "Job not found")
    [] endpoint \in ApiCreateEndpoints -> Response(404, "Voice profile not found")
    [] OTHER -> Response(404, "Profile not found")

\* the rows behind the identifiers: the user column of each (NoUser: no such
\* row), and the profile's fields and sample counts
Database(a) == [owner |-> a.owner, obj |-> a.obj, samples |-> a.samples]

AccessGoes(a) ==
  /\ access' = a
  /\ UNCHANGED <<profile, samples, jobs, audio, nextJob, reqs,
                 broker, running, ended, client, deletion,
                 cover, chunker, reference, handler, trainer>>

\* an authenticated user sends a request (permission_classes IsAuthenticated)
AccessRequest(user, endpoint, valid) ==
  /\ access.pc = "idle"
  /\ valid \/ endpoint \in BodyEndpoints
  /\ AccessGoes([access EXCEPT
       !.pc = IF endpoint \in ApiCreateEndpoints THEN "validate" ELSE "lookup",
       !.user = user, !.endpoint = endpoint, !.valid = valid,
       !.before = Database(access), !.response = NoResponse])

\* TTSJobViewSet.create / CoverJobViewSet.create:
\* serializer.is_valid(raise_exception=True), before the profile is resolved
AccessValidate ==
  /\ access.pc = "validate"
  /\ IF access.valid
       THEN AccessGoes([access EXCEPT !.pc = "lookup"])
       ELSE AccessGoes([access EXCEPT !.pc = "done",
                                      !.response = Response(400, "ValidationError")])

\* the view resolves the row for request.user
AccessLookup ==
  /\ access.pc = "lookup"
  /\ IF Lookup(access.endpoint, access.owner, access.user)
       THEN AccessGoes([access EXCEPT !.pc = "found"])
       ELSE AccessGoes([access EXCEPT !.pc = "done",
                                      !.response = NotFound(access.endpoint)])

\* retrieve / voice_profile_detail GET: the serialized row
AccessRetrieve ==
  /\ access.pc = "found"
  /\ access.endpoint \in ApiJobEndpoints \cup
       {"VoiceProfileViewSet.retrieve", "voice_profile_detail.GET"}
  /\ AccessGoes([access EXCEPT !.pc = "done", !.response = Response(200, "data")])

\* get_enrollment_job: get_latest_enrollment_job takes the profile alone and
\* is called with the job type as well
AccessEnrollmentJob ==
  /\ access.pc = "found"
  /\ access.endpoint \in {"get_enrollment_job.speaking", "get_enrollment_job.singing"}
  /\ AccessGoes([access EXCEPT !.pc = "done", !.response = Response(500, "TypeError")])

\* destroy / voice_profile_detail DELETE: delete_voice_profile(profile); the
\* jobs that used the profile stay (on_delete=SET_NULL)
AccessDestroy ==
  /\ access.pc = "found"
  /\ access.endpoint \in {"VoiceProfileViewSet.destroy", "voice_profile_detail.DELETE"}
  /\ AccessGoes([access EXCEPT !.pc = "done", !.response = Response(204, "none"),
                               !.owner["profile"] = NoUser,
                               !.obj = create_voice_profile,
                               !.samples = NoSamples])

\* samples / _upload_sample: the status check (generic endpoint only), the
\* serializer, then add_sample
AccessUpload ==
  /\ access.pc = "found"
  /\ access.endpoint \in {"VoiceProfileViewSet.samples", "upload_speaking_sample",
                          "upload_singing_sample"}
  /\ access.samples[Mode(access.endpoint)] < MaxSamples
  /\ IF /\ access.endpoint = "VoiceProfileViewSet.samples"
        /\ access.obj.status \notin {"pending", "failed"}
       THEN AccessGoes([access EXCEPT !.pc = "done",
                                      !.response = Response(400, "Cannot add samples")])
       ELSE IF ~access.valid
         THEN AccessGoes([access EXCEPT !.pc = "done",
                                        !.response = Response(400, "ValidationError")])
         ELSE AccessGoes([access EXCEPT !.pc = "done",
                                        !.response = Response(201, "data"),
                                        !.samples[Mode(access.endpoint)] = @ + 1])

\* enroll / enroll_speaking / enroll_singing: enroll_voice_profile(profile)
AccessEnroll ==
  /\ access.pc = "found"
  /\ access.endpoint \in {"VoiceProfileViewSet.enroll", "enroll_speaking", "enroll_singing"}
  /\ LET job_type == Mode(access.endpoint) IN
     IF enroll_rejects(access.obj, job_type, access.samples[job_type])
       THEN AccessGoes([access EXCEPT !.pc = "done",
                                      !.response = Response(400, "ValueError")])
       ELSE AccessGoes([access EXCEPT
              !.pc = "done",
              !.response = Response(IF access.endpoint = "VoiceProfileViewSet.enroll"
                                      THEN 202 ELSE 201, "data"),
              !.obj = enroll_save(access.obj, access.obj, job_type)])

\* TTSJobViewSet.create / CoverJobViewSet.create: the job made is the
\* caller's; it takes the identifier followed here when that one is free
AccessCreate ==
  /\ access.pc = "found"
  /\ access.endpoint \in ApiCreateEndpoints
  /\ LET t == IF access.endpoint = "TTSJobViewSet.create" THEN "tts" ELSE "cover" IN
     IF access.obj.status # "ready"
       THEN AccessGoes([access EXCEPT !.pc = "done",
                                      !.response = Response(400, "ValueError")])
       ELSE AccessGoes([access EXCEPT
              !.pc = "done", !.response = Response(202, "data"),
              !.owner[t] = IF @ = NoUser THEN access.user ELSE @])

\* the response is sent
AccessClose ==
  /\ access.pc = "done"
  /\ AccessGoes([access EXCEPT !.pc = "idle", !.user = NoUser, !.endpoint = "none",
                               !.valid = TRUE, !.before = Database(access),
                               !.response = NoResponse])

\* the rows present when the requests begin: a profile of either user or
\* none, new or with its speaking enrollment completed, and jobs of either
\* user or none
InitOwner ==
  /\ profile = create_voice_profile
  /\ samples = [t \in SampleType |-> 0]
  /\ jobs = [j \in JobIds |-> NoJob]
  /\ audio = [j \in JobIds |-> 0]
  /\ nextJob = 0
  /\ reqs = [r \in ReqIds |-> NoReq]
  /\ broker = {}
  /\ running = [j \in JobIds |-> NoRun]
  /\ ended = [j \in JobIds |-> NoEnd]
  /\ client = NoClient
  /\ deletion = NoDeletion
  /\ cover = NoCover
  /\ chunker = NoChunker
  /\ reference = NoReference
  /\ handler = NoHandler
  /\ trainer = NoTrainer
  /\ \E owner \in [Tables -> Users \cup {NoUser}],
        obj \in {create_voice_profile, ReadyProfile} :
       /\ owner["profile"] = NoUser => obj = create_voice_profile
       /\ LET count == [t \in SampleType |->
                          IF t = "speaking" /\ obj = ReadyProfile THEN 1 ELSE 0]
              db == [owner |-> owner, obj |-> obj, samples |-> count] IN
          access = [NoAccess EXCEPT !.owner = owner, !.obj = obj,
                                    !.samples = count, !.before = db]

NextOwner ==
  \/ \E user \in Users, endpoint \in Endpoints, valid \in BOOLEAN :
       AccessRequest(user, endpoint, valid)
  \/ AccessValidate
  \/ AccessLookup
  \/ AccessRetrieve
  \/ AccessEnrollmentJob
  \/ AccessDestroy
  \/ AccessUpload
  \/ AccessEnroll
  \/ AccessCreate
  \/ AccessClose

SpecOwner == InitOwner /\ [][NextOwner]_vars

----------------------------------------------------------------------------
(***************************************************************************)
(* SpecDelete: one call of VoiceProfileService.delete_voice_profile, blob  *)
(* by blob, with the storage answering each delete as it may.              *)
(***************************************************************************)
\* what client.delete_object does: it succeeds (also for a key that has no
\* blob), raises botocore's ClientError, or raises anything else
StorageOutcomes == {"deleted", "ClientError", "EndpointConnectionError"}

\* StorageBackend.delete_file: True, False on ClientError; any other
\* exception leaves it
delete_file(outcome) ==
  CASE outcome = "deleted" -> "True"
    [] outcome = "ClientError" -> "False"
    [] OTHER -> outcome

\* storage.delete_file(key) called without the try around it
try_delete_file_unguarded(outcome) == delete_file(outcome)

\* delete_voice_profile: try: storage.delete_file(key)
\*                        except Exception as e: logger.warning(...)
try_delete_file(outcome) ==
  IF delete_file(outcome) \in {"True", "False"} THEN delete_file(outcome) ELSE "warning"

\* the sample rows of the profile, in the order of voice_profile.samples.all()
SampleCount == samples["speaking"] + samples["singing"]

DeletionGoes(d) ==
  /\ deletion' = d
  /\ UNCHANGED <<profile, samples, jobs, audio, nextJob, reqs,
                 broker, running, ended, client, access,
                 cover, chunker, reference, handler, trainer>>

\* one guarded storage delete: the blob goes when the storage deleted it, a
\* warning is logged when it did not, and the call goes on; an exception
\* that is not caught ends the call and rolls its transaction back
DeleteBlob(d, kind, key, outcome, pc) ==
  LET r == try_delete_file(outcome) IN
  IF r \in {"True", "False", "warning"}
    THEN DeletionGoes([d EXCEPT
           !.pc = pc,
           !.blobs[kind] = IF r = "True" THEN @ \ {key} ELSE @,
           !.warnings = IF r = "True" THEN @ ELSE @ + 1])
    ELSE DeletionGoes([d EXCEPT !.pc = "raised"])

\* delete_voice_profile(voice_profile) is called
DeleteStart ==
  /\ deletion.pc = "idle"
  /\ DeletionGoes([deletion EXCEPT !.pc = "samples", !.idx = 0])

\* for sample in voice_profile.samples.all(): storage.delete_file(sample.file_path)
DeleteSampleFile(outcome) ==
  /\ deletion.pc = "samples"
  /\ deletion.idx < SampleCount
  /\ DeleteBlob([deletion EXCEPT !.idx = @ + 1], "samples", deletion.idx + 1,
                outcome, "samples")

\* the loop over the samples is over
DeleteSamplesDone ==
  /\ deletion.pc = "samples"
  /\ deletion.idx = SampleCount
  /\ DeletionGoes([deletion EXCEPT !.pc = "embedding"])

\* if voice_profile.chatterbox_embedding_path: storage.delete_file(...)
DeleteEmbedding(outcome) ==
  /\ deletion.pc = "embedding"
  /\ IF profile.chatterbox_embedding_path # ""
       THEN DeleteBlob(deletion, "keys", profile.chatterbox_embedding_path,
                       outcome, "model")
       ELSE DeletionGoes([deletion EXCEPT !.pc = "model"])

\* if voice_profile.rvc_model_path: storage.delete_file(...)
DeleteModel(outcome) ==
  /\ deletion.pc = "model"
  /\ IF profile.rvc_model_path # ""
       THEN DeleteBlob(deletion, "keys", profile.rvc_model_path, outcome, "delete")
       ELSE DeletionGoes([deletion EXCEPT !.pc = "delete"])

\* voice_profile.delete(): the row goes, and with it the rows that cascade
\* (samples, enrollment jobs); TTS and cover jobs stay (on_delete=SET_NULL)
DeleteRow ==
  /\ deletion.pc = "delete"
  /\ deletion' = [deletion EXCEPT !.pc = "returned", !.row = FALSE]
  /\ samples' = [t \in SampleType |-> 0]
  /\ jobs' = [j \in JobIds |-> IF IsEnrollment(jobs[j].kind) THEN NoJob ELSE jobs[j]]
  /\ UNCHANGED <<profile, audio, nextJob, reqs, broker, running, ended,
                 client, access,
                 cover, chunker, reference, handler, trainer>>

\* a profile whose two enrollments have completed
TrainedProfile == mark_enrollment_complete(ReadyProfile, "singing", ModelKey)

\* the profile the call is given: new, with its speaking enrollment
\* completed (and then possibly a TTS job made with it), or with both
\* completed; its samples; and the blobs the storage still holds of them
InitDelete ==
  /\ \E variant \in {"new", "ready", "used", "trained"} :
       /\ profile = CASE variant = "new" -> create_voice_profile
                      [] variant = "trained" -> TrainedProfile
                      [] OTHER -> ReadyProfile
       /\ jobs = [j \in JobIds |->
                    LET kind == CASE j = 1 /\ variant # "new" -> "speaking"
                                  [] j = 2 /\ variant = "used" -> "tts"
                                  [] j = 2 /\ variant = "trained" -> "singing"
                                  [] OTHER -> "none" IN
                    IF kind = "none" THEN NoJob
                    ELSE CompletedRow(ProcessingRow(QueueRow(NewRow(kind))))]
       /\ nextJob = CASE variant = "new" -> 0
                      [] variant = "ready" -> 1
                      [] OTHER -> 2
       /\ \E n \in 0..MaxSamples, m \in 0..1 :
            /\ variant # "new" => n >= 1
            /\ variant = "trained" => m >= 1
            /\ samples = [t \in SampleType |-> IF t = "speaking" THEN n ELSE m]
            /\ \E held \in SUBSET (1..(n + m)),
                  keys \in SUBSET ({profile.chatterbox_embedding_path,
                                    profile.rvc_model_path} \ {""}) :
                 deletion = [NoDeletion EXCEPT !.blobs = [samples |-> held, keys |-> keys]]
  /\ audio = [j \in JobIds |-> 0]
  /\ reqs = [r \in ReqIds |-> NoReq]
  /\ broker = {}
  /\ running = [j \in JobIds |-> NoRun]
  /\ ended = [j \in JobIds |-> NoEnd]
  /\ client = NoClient
  /\ access = NoAccess
  /\ cover = NoCover
  /\ chunker = NoChunker
  /\ reference = NoReference
  /\ handler = NoHandler
  /\ trainer = NoTrainer

NextDelete ==
  \/ DeleteStart
  \/ \E outcome \in StorageOutcomes : DeleteSampleFile(outcome)
  \/ DeleteSamplesDone
  \/ \E outcome \in StorageOutcomes : DeleteEmbedding(outcome)
  \/ \E outcome \in StorageOutcomes : DeleteModel(outcome)
  \/ DeleteRow

\* every storage call returns or raises, and the call goes on
SpecDelete == InitDelete /\ [][NextDelete]_vars /\ WF_vars(NextDelete)

----------------------------------------------------------------------------
(***************************************************************************)
(* SpecCover: one call of SongCoverPipeline.create_cover, stage by stage,  *)
(* with the directory it works in.                                         *)
(*   validate -> setup -> separate -> convert -> mix -> save -> finally    *)
(***************************************************************************)
\* how a stage can end: it returns a result with success true, one with
\* success false, or raises.  DemucsWrapper.separate catches what it meets;
\* convert_with_embedding unpickles the embedding outside any try;
\* _mix_audio, normalize_audio and save_audio return or raise
StageOutcomes(stage) ==
  CASE stage = "separate" -> {"ok", "failed"}
    [] stage = "convert" -> {"ok", "failed", "raised"}
    [] OTHER -> {"ok", "raised"}

\* the finally clause removing the working directory whoever supplied it
cleanup_any_directory(temp_dir, keep_intermediates) == ~keep_intermediates

\* finally: if temp_dir and not self.keep_intermediates: shutil.rmtree(temp_dir)
cleanup(temp_dir, keep_intermediates) == temp_dir /\ ~keep_intermediates

\* except Exception as e: return CoverResult(..., error_message=str(e))
except_result(produced) == CoverResult(FALSE, "exception")

CoverGoes(c) ==
  /\ cover' = c
  /\ UNCHANGED <<profile, samples, jobs, audio, nextJob, reqs, broker, running,
                 ended, client, access, deletion, chunker, reference, handler,
                 trainer>>

\* a return statement inside the try: the result is made, the finally
\* clause runs next
CoverReturns(c, result) == CoverGoes([c EXCEPT !.pc = "finally", !.result = result])

\* "Validate inputs": the two early returns, before any directory is made
CoverValidate ==
  /\ cover.pc = "validate"
  /\ IF ~cover.song
       THEN CoverGoes([cover EXCEPT !.pc = "returned",
                                    !.result = CoverResult(FALSE, "Song not found")])
     ELSE IF ~cover.embedding
       THEN CoverGoes([cover EXCEPT !.pc = "returned",
                                    !.result = CoverResult(FALSE, "Voice embedding not found")])
     ELSE CoverGoes([cover EXCEPT !.pc = "setup"])

\* "Set up work directory": tempfile.mkdtemp, or work_dir.mkdir(exist_ok=True)
CoverSetup ==
  /\ cover.pc = "setup"
  /\ IF cover.work_dir = "None"
       THEN CoverGoes([cover EXCEPT !.pc = "separate", !.temp_dir = TRUE,
                                    !.disk = @ \cup {"temp"}])
       ELSE CoverGoes([cover EXCEPT !.pc = "separate", !.disk = @ \cup {"caller"}])

\* Step 1: self.separator.separate(...)
CoverSeparate(outcome) ==
  /\ cover.pc = "separate"
  /\ LET c == [cover EXCEPT !.calls = Append(@, "separate")] IN
     IF outcome = "ok"
       THEN CoverGoes([c EXCEPT !.pc = "convert",
                                !.produced = @ \cup {"vocals", "instrumentals"}])
       ELSE CoverReturns(c, CoverResult(FALSE, "Separation failed"))

\* Step 2: self.rvc.convert_with_embedding(...)
CoverConvert(outcome) ==
  /\ cover.pc = "convert"
  /\ LET c == [cover EXCEPT !.calls = Append(@, "convert")] IN
     CASE outcome = "ok" ->
            CoverGoes([c EXCEPT !.pc = "mix", !.produced = @ \cup {"converted_vocals"}])
       [] outcome = "failed" ->
            CoverReturns(c, [CoverResult(FALSE, "Voice conversion failed") EXCEPT
                               !.vocals_path = TRUE, !.instrumentals_path = TRUE])
       [] OTHER -> CoverReturns(c, except_result(c.produced))

\* Step 3: self._mix_audio(...) and normalize_audio
CoverMix(outcome) ==
  /\ cover.pc = "mix"
  /\ LET c == [cover EXCEPT !.calls = Append(@, "mix")] IN
     IF outcome = "ok"
       THEN CoverGoes([c EXCEPT !.pc = "save"])
       ELSE CoverReturns(c, except_result(c.produced))

\* "Save final cover": save_audio(output_path, ...), then the result
CoverSave(outcome) ==
  /\ cover.pc = "save"
  /\ LET c == [cover EXCEPT !.calls = Append(@, "save")] IN
     IF outcome = "ok"
       THEN CoverReturns([c EXCEPT !.output = TRUE],
                         [CoverResult(TRUE, "none") EXCEPT
                            !.output_path = TRUE,
                            !.vocals_path = cover.keep_intermediates,
                            !.instrumentals_path = cover.keep_intermediates,
                            !.converted_vocals_path = cover.keep_intermediates])
       ELSE CoverReturns(c, except_result(c.produced))

\* finally: the directory made by the call is removed unless it is kept
CoverFinally ==
  /\ cover.pc = "finally"
  /\ CoverGoes([cover EXCEPT
       !.pc = "returned",
       !.disk = IF cleanup(cover.temp_dir, cover.keep_intermediates)
                  THEN @ \ {IF cover.temp_dir THEN "temp" ELSE "caller"}
                  ELSE @])

\* the pipeline as constructed (keep_intermediates) and the arguments of the
\* call: whether the song and the embedding exist, and the work_dir given
\* (none, a directory that exists already, or one still to be made)
InitCover ==
  /\ profile = create_voice_profile
  /\ samples = [t \in SampleType |-> 0]
  /\ jobs = [j \in JobIds |-> NoJob]
  /\ audio = [j \in JobIds |-> 0]
  /\ nextJob = 0
  /\ reqs = [r \in ReqIds |-> NoReq]
  /\ broker = {}
  /\ running = [j \in JobIds |-> NoRun]
  /\ ended = [j \in JobIds |-> NoEnd]
  /\ client = NoClient
  /\ access = NoAccess
  /\ deletion = NoDeletion
  /\ chunker = NoChunker
  /\ reference = NoReference
  /\ handler = NoHandler
  /\ trainer = NoTrainer
  /\ \E keep_intermediates \in BOOLEAN, song \in BOOLEAN, embedding \in BOOLEAN,
        work_dir \in {"None", "existing", "new"} :
       cover = [NoCover EXCEPT !.pc = "validate",
                               !.keep_intermediates = keep_intermediates,
                               !.song = song, !.embedding = embedding,
                               !.work_dir = work_dir,
                               !.disk = IF work_dir = "existing" THEN {"caller"} ELSE {}]

NextCover ==
  \/ CoverValidate
  \/ CoverSetup
  \/ \E outcome \in StageOutcomes("separate") : CoverSeparate(outcome)
  \/ \E outcome \in StageOutcomes("convert") : CoverConvert(outcome)
  \/ \E outcome \in StageOutcomes("mix") : CoverMix(outcome)
  \/ \E outcome \in StageOutcomes("save") : CoverSave(outcome)
  \/ CoverFinally

SpecCover == InitCover /\ [][NextCover]_vars

----------------------------------------------------------------------------
(***************************************************************************)
(* SpecChunk: SynthesisPipeline.synthesize on a text: preprocess_text,     *)
(* chunk_text with the loop over the sentences taken one iteration at a    *)
(* time, then the engine calls, one per chunk, and the save.               *)
(***************************************************************************)
\* the characters of the input texts: a letter, a sentence end, a blank
Chars == {"a", ".", " "}

\* every text of at most n characters
TextsUpTo(n) == UNION {[1..k -> Chars] : k \in 0..n}

\* " ".join(text.split()) on a stripped text: every run of whitespace
\* becomes one blank
RECURSIVE normalize_whitespace(_)
normalize_whitespace(s) ==
  IF s = << >> THEN << >>
  ELSE IF Head(s) \in Whitespace
    THEN <<" ">> \o normalize_whitespace(LStrip(s))
    ELSE <<Head(s)>> \o normalize_whitespace(Tail(s))

\* SynthesisPipeline.preprocess_text
preprocess_text(text) == normalize_whitespace(Strip(text))

\* re.split(r'(?<=[.!?])\s+', text): the text is cut at every run of
\* whitespace that follows a sentence end; the run is dropped.  `current`
\* is the piece read so far
RECURSIVE re_split(_, _)
re_split(s, current) ==
  IF s = << >> THEN <<current>>
  ELSE IF /\ Head(s) \in Whitespace
          /\ current # << >>
          /\ current[Len(current)] \in {".", "!", "?"}
    THEN <<current>> \o re_split(LStrip(s), << >>)
    ELSE re_split(Tail(s), Append(current, Head(s)))

\* chunk_text: if len(current) + len(sentence) <= self.max_text_length
fits(current, sentence, max_text_length) ==
  Len(current) + Len(sentence) <= max_text_length

\* AudioResult(audio_array, sample_rate, duration_seconds, success,
\* error_message); chunk tells whose audio it holds
AudioResult(success, error_message, chunk) ==
  [success |-> success, error_message |-> error_message, chunk |-> chunk]

\* the result engine.synthesize returns for the k-th chunk
engine_synthesize(k, outcome) ==
  IF outcome = "ok" THEN AudioResult(TRUE, "none", k)
  ELSE AudioResult(FALSE, "Synthesis failed", k)

\* a loop that goes on to the next chunk whatever the result
chunk_failure_ignored(chunk_result) == FALSE

\* if not chunk_result.success: return chunk_result
chunk_failure_returns(chunk_result) == ~chunk_result.success

ChunkerGoes(c) ==
  /\ chunker' = c
  /\ UNCHANGED <<profile, samples, jobs, audio, nextJob, reqs, broker, running,
                 ended, client, access, deletion, cover, reference, handler,
                 trainer>>

\* synthesize: text = self.preprocess_text(text); an empty text ends the call
Preprocess ==
  /\ chunker.pc = "preprocess"
  /\ LET text == preprocess_text(chunker.text) IN
     IF text = << >>
       THEN ChunkerGoes([chunker EXCEPT
              !.text = text, !.pc = "returned",
              !.result = AudioResult(FALSE, "Empty text after preprocessing", 0)])
       ELSE ChunkerGoes([chunker EXCEPT !.text = text, !.pc = "chunk"])

\* chunk_text: a text that fits is returned whole, a longer one is split
\* into sentences
ChunkText ==
  /\ chunker.pc = "chunk"
  /\ IF Len(chunker.text) <= chunker.max_text_length
       THEN ChunkerGoes([chunker EXCEPT !.pc = "done", !.chunks = <<chunker.text>>])
       ELSE ChunkerGoes([chunker EXCEPT !.pc = "loop",
                                        !.sentences = re_split(chunker.text, << >>)])

\* for sentence in sentences: one iteration
ChunkSentence ==
  /\ chunker.pc = "loop"
  /\ chunker.idx < Len(chunker.sentences)
  /\ LET sentence == chunker.sentences[chunker.idx + 1]
         c == [chunker EXCEPT !.idx = @ + 1] IN
     IF fits(chunker.current, sentence, chunker.max_text_length)
       THEN ChunkerGoes([c EXCEPT
              !.current = Strip(chunker.current \o <<" ">> \o sentence)])
       ELSE ChunkerGoes([c EXCEPT
              !.chunks = IF chunker.current # << >>
                           THEN Append(@, chunker.current) ELSE @,
              !.current = sentence])

\* if current: chunks.append(current); return chunks
ChunkReturn ==
  /\ chunker.pc = "loop"
  /\ chunker.idx = Len(chunker.sentences)
  /\ ChunkerGoes([chunker EXCEPT
       !.pc = "done",
       !.chunks = IF chunker.current # << >> THEN Append(@, chunker.current) ELSE @])

\* one engine.synthesize call: on the whole text when there is one chunk,
\* else on the next chunk of the loop
SynthesizeChunk(outcome) ==
  /\ chunker.pc = "done"
  /\ Len(chunker.engine_calls) < Len(chunker.chunks)
  /\ LET k == Len(chunker.engine_calls) + 1
         chunk_result == engine_synthesize(k, outcome)
         c == [chunker EXCEPT
                 !.engine_calls = Append(@, [chunk |-> k, outcome |-> outcome])] IN
     IF Len(chunker.chunks) = 1
       THEN ChunkerGoes([c EXCEPT !.pc = "post", !.result = chunk_result])
     ELSE IF chunk_failure_returns(chunk_result)
       THEN ChunkerGoes([c EXCEPT !.pc = "returned", !.result = chunk_result])
     ELSE IF k = Len(chunker.chunks)
       THEN \* concatenate_audio(results, ...): the combined AudioResult
            ChunkerGoes([c EXCEPT !.pc = "post", !.result = AudioResult(TRUE, "none", 0)])
     ELSE ChunkerGoes(c)

\* "Post-process" and "Save if requested", then return result; save_audio
\* can raise, and synthesize does not catch it
SynthesizeFinish(output_path, written) ==
  /\ chunker.pc = "post"
  /\ IF chunker.result.success /\ output_path
       THEN IF written
              THEN ChunkerGoes([chunker EXCEPT !.pc = "returned", !.saved = TRUE])
              ELSE ChunkerGoes([chunker EXCEPT !.pc = "raised"])
       ELSE ChunkerGoes([chunker EXCEPT !.pc = "returned"])

\* a pipeline with some max_text_length and the text given to synthesize
InitChunk ==
  /\ profile = create_voice_profile
  /\ samples = [t \in SampleType |-> 0]
  /\ jobs = [j \in JobIds |-> NoJob]
  /\ audio = [j \in JobIds |-> 0]
  /\ nextJob = 0
  /\ reqs = [r \in ReqIds |-> NoReq]
  /\ broker = {}
  /\ running = [j \in JobIds |-> NoRun]
  /\ ended = [j \in JobIds |-> NoEnd]
  /\ client = NoClient
  /\ access = NoAccess
  /\ deletion = NoDeletion
  /\ cover = NoCover
  /\ reference = NoReference
  /\ handler = NoHandler
  /\ trainer = NoTrainer
  /\ \E text \in TextsUpTo(MaxText), max_text_length \in 2..MaxTextLength :
       chunker = [NoChunker EXCEPT !.pc = "preprocess", !.text = text,
                                   !.max_text_length = max_text_length]

NextChunk ==
  \/ Preprocess
  \/ ChunkText
  \/ ChunkSentence
  \/ ChunkReturn
  \/ \E outcome \in {"ok", "failed"} : SynthesizeChunk(outcome)
  \/ \E output_path \in BOOLEAN, written \in BOOLEAN : SynthesizeFinish(output_path, written)

SpecChunk == InitChunk /\ [][NextChunk]_vars

----------------------------------------------------------------------------
(***************************************************************************)
(* SpecEnroll: ChatterboxWrapper.enroll / F5TTSWrapper.enroll on a list of *)
(* samples, the loop that picks the reference taken one sample at a time.  *)
(* The two wrappers pick alike; durations are whole seconds.               *)
(***************************************************************************)
\* durations of samples: below the preferred window, on its two ends,
\* inside it, and above it
Durations == {3, 5, 8, 15, 20}

\* every non-empty list of at most n durations
SampleLists(n) == UNION {[1..k -> Durations] : k \in 1..n}

\* enroll: if 5.0 <= duration <= 15.0
in_sweet_spot(duration) == 5 <= duration /\ duration <= 15

\* EmbeddingResult(...) with the sample picked as reference (0: none)
EmbeddingResult(sample_count, total_duration_seconds, success, source_file) ==
  [sample_count |-> sample_count, total_duration_seconds |-> total_duration_seconds,
   success |-> success, source_file |-> source_file]

ReferenceGoes(r) ==
  /\ reference' = r
  /\ UNCHANGED <<profile, samples, jobs, audio, nextJob, reqs, broker, running,
                 ended, client, access, deletion, cover, chunker, handler,
                 trainer>>

\* for sample_path in samples: one iteration
EnrollSample ==
  /\ reference.pc = "loop"
  /\ reference.idx < Len(reference.durations)
  /\ LET i == reference.idx + 1
         duration == reference.durations[i]
         r == [reference EXCEPT !.idx = i, !.total_duration = @ + duration] IN
     IF in_sweet_spot(duration)
       THEN IF reference.best_sample = 0 \/ duration > reference.best_duration
              THEN ReferenceGoes([r EXCEPT !.best_sample = i, !.best_duration = duration])
              ELSE ReferenceGoes(r)
     ELSE IF reference.best_sample = 0
       THEN ReferenceGoes([r EXCEPT !.best_sample = i, !.best_duration = duration])
       ELSE ReferenceGoes(r)

\* the reference is loaded and the embedding written, or something raises
\* and the except clause answers
EnrollStore(raised) ==
  /\ reference.pc = "loop"
  /\ reference.idx = Len(reference.durations)
  /\ ReferenceGoes([reference EXCEPT
       !.pc = "done",
       !.result = IF raised
                    THEN EmbeddingResult(Len(reference.durations), 0, FALSE, 0)
                    ELSE EmbeddingResult(Len(reference.durations),
                                         reference.total_duration, TRUE,
                                         reference.best_sample)])

\* a non-empty list of samples is given (the empty list is answered before
\* the loop)
InitEnroll ==
  /\ profile = create_voice_profile
  /\ samples = [t \in SampleType |-> 0]
  /\ jobs = [j \in JobIds |-> NoJob]
  /\ audio = [j \in JobIds |-> 0]
  /\ nextJob = 0
  /\ reqs = [r \in ReqIds |-> NoReq]
  /\ broker = {}
  /\ running = [j \in JobIds |-> NoRun]
  /\ ended = [j \in JobIds |-> NoEnd]
  /\ client = NoClient
  /\ access = NoAccess
  /\ deletion = NoDeletion
  /\ cover = NoCover
  /\ chunker = NoChunker
  /\ handler = NoHandler
  /\ trainer = NoTrainer
  /\ \E durations \in SampleLists(MaxSamples) :
       reference = [NoReference EXCEPT !.pc = "loop", !.durations = durations]

NextEnroll ==
  \/ EnrollSample
  \/ \E raised \in BOOLEAN : EnrollStore(raised)

SpecEnroll == InitEnroll /\ [][NextEnroll]_vars

----------------------------------------------------------------------------
(***************************************************************************)
(* SpecHandler: one call of the serverless handler train_rvc_model         *)
(* (tts_engine/runpod_handler.py) on a payload.                            *)
(*   parse -> download (one per URL) -> train and upload -> returned       *)
(***************************************************************************)
\* RVCTrainer.__init__(self, model_name, config=None)
RVCTrainer_parameters == [all |-> {"model_name", "config"}, required |-> {"model_name"}]

\* RVCTrainer.train_model(self, samples, output_path, progress_callback=None)
train_model_parameters ==
  [all |-> {"samples", "output_path", "progress_callback"},
   required |-> {"samples", "output_path"}]

\* the handler's call RVCTrainer(rvc_root=..., device=device)
RVCTrainer_call == {"rvc_root", "device"}

\* the handler's call trainer.train_model(samples=..., output_path=...,
\* config=config, progress_callback=progress_callback)
train_model_call == {"samples", "output_path", "config", "progress_callback"}

\* Python binds a call made with keywords: every keyword names a parameter
\* and every parameter without default is given (TypeError otherwise)
Binds(parameters, keywords) ==
  /\ keywords \subseteq parameters.all
  /\ parameters.required \subseteq keywords

\* job_input.get(key, default), 0 standing for a key the payload lacks
get(value, default) == IF value = 0 THEN default ELSE value

\* TrainingConfig(sample_rate=40000, total_epochs=epochs, batch_size=batch_size,
\*                save_frequency=50, cache_data=False, f0_method="rmvpe")
TrainingConfig(epochs, batch_size) ==
  [sample_rate |-> 40000, total_epochs |-> epochs, batch_size |-> batch_size,
   save_frequency |-> 50, cache_data |-> FALSE, f0_method |-> "rmvpe"]

\* the parse step testing the sample URLs alone
validate_sample_urls_only(sample_urls, upload_url) ==
  IF sample_urls = 0 THEN "No sample URLs provided" ELSE "none"

\* if not sample_urls: raise ValueError(...); if not upload_url: raise ValueError(...)
validate(sample_urls, upload_url) ==
  IF sample_urls = 0 THEN "No sample URLs provided"
  ELSE IF ~upload_url THEN "No upload URL provided"
  ELSE "none"

HandlerGoes(h) ==
  /\ handler' = h
  /\ UNCHANGED <<profile, samples, jobs, audio, nextJob, reqs, broker, running,
                 ended, client, access, deletion, cover, chunker, reference,
                 trainer>>

\* except Exception as e: return {"success": False, "error": str(e), ...}
HandlerExcept(h, error) ==
  HandlerGoes([h EXCEPT !.pc = "returned",
                        !.result = [success |-> FALSE, error |-> error]])

\* "Parse input" and the two checks
HandlerParse ==
  /\ handler.pc = "parse"
  /\ LET error == validate(handler.sample_urls, handler.upload_url) IN
     IF error # "none"
       THEN HandlerExcept(handler, error)
       ELSE HandlerGoes([handler EXCEPT !.pc = "download"])

\* for i, url in enumerate(sample_urls, 1): download_file(url, sample_path);
\* requests raises for a failed GET
HandlerDownload(outcome) ==
  /\ handler.pc = "download"
  /\ handler.downloads < handler.sample_urls
  /\ IF outcome = "ok"
       THEN HandlerGoes([handler EXCEPT !.downloads = @ + 1])
       ELSE HandlerExcept([handler EXCEPT !.faults = @ \cup {"download"}], "HTTPError")

\* the inner try (TrainingConfig, RVCTrainer(...), train_model(...), whose
\* every exception becomes RuntimeError), then upload_to_presigned_url and
\* the success payload
HandlerTrain(trained, uploaded) ==
  /\ handler.pc = "download"
  /\ handler.downloads = handler.sample_urls
  /\ LET h == [handler EXCEPT
                 !.config = TrainingConfig(handler.epochs, handler.batch_size)] IN
     IF ~Binds(RVCTrainer_parameters, RVCTrainer_call)
       THEN HandlerExcept(h, "RVC training failed: TypeError")
     ELSE IF ~Binds(train_model_parameters, train_model_call)
       THEN HandlerExcept([h EXCEPT !.constructed = TRUE],
                          "RVC training failed: TypeError")
     ELSE IF trained # "ok"
       THEN HandlerExcept([h EXCEPT !.constructed = TRUE, !.trained = TRUE,
                                    !.faults = @ \cup {"train"}],
                          "RVC training failed")
     ELSE IF uploaded # "ok"
       THEN HandlerExcept([h EXCEPT !.constructed = TRUE, !.trained = TRUE,
                                    !.faults = @ \cup {"upload"}],
                          "HTTPError")
     ELSE HandlerGoes([h EXCEPT !.pc = "returned", !.constructed = TRUE,
                                !.trained = TRUE, !.uploaded = TRUE,
                                !.result = [success |-> TRUE, error |-> "none"]])

\* the payload: some number of sample URLs, an upload URL or none, epochs
\* and batch_size given or not (0: the key is absent); and whether
\* torch.cuda.is_available()
InitHandler ==
  /\ profile = create_voice_profile
  /\ samples = [t \in SampleType |-> 0]
  /\ jobs = [j \in JobIds |-> NoJob]
  /\ audio = [j \in JobIds |-> 0]
  /\ nextJob = 0
  /\ reqs = [r \in ReqIds |-> NoReq]
  /\ broker = {}
  /\ running = [j \in JobIds |-> NoRun]
  /\ ended = [j \in JobIds |-> NoEnd]
  /\ client = NoClient
  /\ access = NoAccess
  /\ deletion = NoDeletion
  /\ cover = NoCover
  /\ chunker = NoChunker
  /\ reference = NoReference
  /\ trainer = NoTrainer
  /\ \E sample_urls \in 0..MaxSamples, upload_url \in BOOLEAN,
        epochs \in {0, 50}, batch_size \in {0, 8}, cuda \in BOOLEAN :
       handler = [NoHandler EXCEPT
                    !.pc = "parse", !.sample_urls = sample_urls,
                    !.upload_url = upload_url,
                    !.epochs = get(epochs, 100),
                    !.batch_size = get(batch_size, 32),
                    !.device = IF cuda THEN "cuda" ELSE "cpu"]

NextHandler ==
  \/ HandlerParse
  \/ \E outcome \in {"ok", "failed"} : HandlerDownload(outcome)
  \/ \E trained \in {"ok", "failed"}, uploaded \in {"ok", "failed"} :
       HandlerTrain(trained, uploaded)

SpecHandler == InitHandler /\ [][NextHandler]_vars

----------------------------------------------------------------------------
(***************************************************************************)
(* SpecTrainer: one call of RVCTrainer.train_model.  The inputs are the    *)
(* number of samples and which of the HuBERT and pretrained weights exist  *)
(* under /app/assets; each stage's script is missing, exits with zero or   *)
(* non-zero, or subprocess.run or the callback raises.                     *)
(***************************************************************************)
\* the stages of train_model up to the model training, in the order of the
\* code
TrainingStages == <<"prepare", "preprocess", "f0", "feature", "train">>

\* what a call of _run_script can meet: the script is not there, the
\* process exits with zero or with non-zero (CalledProcessError), or
\* something else is raised (the callback, subprocess.run itself)
ScriptOutcomes == {"ok", "missing", "exit", "raised"}

\* TrainingResult(model_path, index_path, success, error_message)
TrainingResult(model_path, index_path, success, error_message) ==
  [model_path |-> model_path, index_path |-> index_path, success |-> success,
   error_message |-> error_message]

\* a caller that goes on whatever the script returned
run_script_ignoring_failure(outcome) == TRUE

\* the value _run_script returns
run_script(outcome) == outcome = "ok"

TrainerGoes(t) ==
  /\ trainer' = t
  /\ UNCHANGED <<profile, samples, jobs, audio, nextJob, reqs, broker, running,
                 ended, client, access, deletion, cover, chunker, reference,
                 handler>>

\* return TrainingResult(model_path=None, index_path=None, success=False, ...)
TrainerFails(t, error_message) ==
  TrainerGoes([t EXCEPT !.pc = "returned",
                        !.result = TrainingResult("none", "none", FALSE, error_message)])

\* except Exception as e: return TrainingResult(..., success=False,
\* error_message=str(e))
TrainerExcept(t) == TrainerFails([t EXCEPT !.raised = TRUE], "exception")

\* one "if not self._run_script(...): return TrainingResult(...)" with the
\* callback after it; _run_script reports (description, 0) once it has
\* found the script
RunStage(stage, next, error_message, percent, outcome) ==
  LET t == [trainer EXCEPT
              !.calls = Append(@, [stage |-> stage, outcome |-> outcome]),
              !.reported = IF outcome = "missing" THEN @ ELSE Append(@, 0)] IN
  IF outcome = "raised" THEN TrainerExcept(t)
  ELSE IF ~run_script(outcome) THEN TrainerFails(t, error_message)
  ELSE TrainerGoes([t EXCEPT !.pc = next, !.reported = Append(@, percent)])

\* Step 0: _prepare_dataset, which catches its own exceptions
TrainPrepare(outcome) ==
  /\ trainer.pc = "prepare"
  /\ LET t == [trainer EXCEPT
                 !.calls = Append(@, [stage |-> "prepare", outcome |-> outcome]),
                 !.reported = Append(@, 0)] IN
     IF outcome # "ok" THEN TrainerFails(t, "Failed to prepare dataset")
     ELSE TrainerGoes([t EXCEPT !.pc = "preprocess"])

\* Step 1: trainset_preprocess_pipeline_print.py
TrainPreprocess(outcome) ==
  /\ trainer.pc = "preprocess"
  /\ RunStage("preprocess", "f0", "Audio preprocessing failed", 15, outcome)

\* Step 2: extract_f0_print.py
TrainExtractF0(outcome) ==
  /\ trainer.pc = "f0"
  /\ RunStage("f0", "feature", "F0 extraction failed", 30, outcome)

\* Step 3: the HuBERT weights, then extract_feature_print.py
TrainExtractFeature(outcome) ==
  /\ trainer.pc = "feature"
  /\ IF ~trainer.hubert_model THEN TrainerFails(trainer, "HuBERT model not found")
     ELSE RunStage("feature", "train", "Feature extraction failed", 45, outcome)

\* Step 4: the pretrained weights, then train_nsf_sim_cache_sid_load_pretrain.py
TrainTrain(outcome) ==
  /\ trainer.pc = "train"
  /\ IF ~trainer.pretrain_g \/ ~trainer.pretrain_d
       THEN TrainerFails(trainer, "Pretrained models not found")
       ELSE RunStage("train", "index", "Model training failed", 90, outcome)

\* an index build whose failure ends the run
index_failure_returns_failure(outcome) == ~run_script(outcome)

\* whether train_model returns after the index build: "Index is optional,
\* so we continue"
index_failure_returns(outcome) == FALSE

\* Step 5: train_index.py, whose failure is only logged
TrainIndex(outcome) ==
  /\ trainer.pc = "index"
  /\ LET t == [trainer EXCEPT
                 !.calls = Append(@, [stage |-> "index", outcome |-> outcome]),
                 !.reported = IF outcome = "missing" THEN @ ELSE Append(@, 0)] IN
     IF outcome = "raised" THEN TrainerExcept(t)
     ELSE IF index_failure_returns(outcome) THEN TrainerFails(t, "Index building failed")
     ELSE TrainerGoes([t EXCEPT !.pc = "collect", !.reported = Append(@, 95)])

\* the generator files in logs_dir, the index file, the copies to output_path
TrainCollect(model_files, index_files, copied) ==
  /\ trainer.pc = "collect"
  /\ LET t == [trainer EXCEPT !.model_files = model_files,
                              !.index_files = model_files /\ index_files] IN
     IF ~model_files THEN TrainerFails(t, "Trained model not found in logs directory")
     ELSE IF ~copied THEN TrainerExcept(t)
     ELSE TrainerGoes([t EXCEPT
            !.pc = "returned",
            !.reported = Append(@, 100),
            !.result = TrainingResult("output_path",
                                      IF index_files THEN "output_path.index" ELSE "none",
                                      TRUE, "none")])

InitTrainer ==
  /\ profile = create_voice_profile
  /\ samples = [t \in SampleType |-> 0]
  /\ jobs = [j \in JobIds |-> NoJob]
  /\ audio = [j \in JobIds |-> 0]
  /\ nextJob = 0
  /\ reqs = [r \in ReqIds |-> NoReq]
  /\ broker = {}
  /\ running = [j \in JobIds |-> NoRun]
  /\ ended = [j \in JobIds |-> NoEnd]
  /\ client = NoClient
  /\ access = NoAccess
  /\ deletion = NoDeletion
  /\ cover = NoCover
  /\ chunker = NoChunker
  /\ reference = NoReference
  /\ handler = NoHandler
  /\ \E n \in 1..MaxSamples, hubert_model \in BOOLEAN, pretrain_g \in BOOLEAN,
        pretrain_d \in BOOLEAN :
       trainer = [NoTrainer EXCEPT !.pc = "prepare", !.samples = n,
                                   !.hubert_model = hubert_model,
                                   !.pretrain_g = pretrain_g,
                                   !.pretrain_d = pretrain_d]

NextTrainer ==
  \/ \E outcome \in {"ok", "failed"} : TrainPrepare(outcome)
  \/ \E outcome \in ScriptOutcomes : TrainPreprocess(outcome)
  \/ \E outcome \in ScriptOutcomes : TrainExtractF0(outcome)
  \/ \E outcome \in ScriptOutcomes : TrainExtractFeature(outcome)
  \/ \E outcome \in ScriptOutcomes : TrainTrain(outcome)
  \/ \E outcome \in ScriptOutcomes : TrainIndex(outcome)
  \/ \E model_files \in BOOLEAN, index_files \in BOOLEAN, copied \in BOOLEAN :
       TrainCollect(model_files, index_files, copied)

SpecTrainer == InitTrainer /\ [][NextTrainer]_vars

----------------------------------------------------------------------------
(***************************************************************************)
(* SpecPipeline: VoiceEnrollmentPipeline.enroll on a list of sample files: *)
(* validate_samples one file at a time, the two checks, and the engine's   *)
(* enroll on the samples handed over.  Durations are whole seconds.        *)
(***************************************************************************)
\* VoiceEnrollmentPipeline.__init__ defaults
min_sample_duration == 3
max_sample_duration == 30
min_total_duration == 10

\* a sample file: not there, there but unreadable, or readable with a
\* duration below, on, between, on and above the per-sample bounds
SampleFiles ==
  {[state |-> "missing", duration |-> 0], [state |-> "unreadable", duration |-> 0]} \cup
  {[state |-> "audio", duration |-> d] : d \in {2, 3, 4, 30, 31}}

\* every list of at most n sample files
FileLists(n) == UNION {[1..k -> SampleFiles] : k \in 0..n}

\* a validation that tests the lower bound only
validate_audio_file_min_only(file, min_duration, max_duration) ==
  /\ file.state \notin {"missing", "unreadable"}
  /\ ~(file.duration < min_duration)

\* validate_audio_file: is_valid
validate_audio_file(file, min_duration, max_duration) ==
  /\ file.state # "missing"
  /\ file.state # "unreadable"
  /\ ~(file.duration < min_duration)
  /\ ~(file.duration > max_duration)

\* sum(get_audio_duration(s) for s in valid_samples), valid being positions
\* in files
RECURSIVE sum_durations(_, _)
sum_durations(files, valid) ==
  IF valid = << >> THEN 0
  ELSE files[Head(valid)].duration + sum_durations(files, Tail(valid))

\* the durations of the files at the positions given
durations_of(files, positions) ==
  [k \in 1..Len(positions) |-> files[positions[k]].duration]

\* validate_samples: one iteration of "for sample in samples"
PipelineValidateSample ==
  /\ reference.pc = "validate"
  /\ ~reference.skip_validation
  /\ reference.vidx < Len(reference.files)
  /\ LET i == reference.vidx + 1 IN
     IF validate_audio_file(reference.files[i], min_sample_duration, max_sample_duration)
       THEN ReferenceGoes([reference EXCEPT !.vidx = i, !.valid = Append(@, i)])
       ELSE ReferenceGoes([reference EXCEPT !.vidx = i, !.errors = Append(@, i)])

\* self.engine.enroll(valid_samples, output_path): an empty list is answered
\* at once; a file the engine cannot read ends in its except clause
PipelineDelegate(r, valid_samples) ==
  LET given == [r EXCEPT !.called = TRUE, !.received = valid_samples] IN
  IF valid_samples = << >>
    THEN ReferenceGoes([given EXCEPT !.pc = "done",
                                     !.result = EmbeddingResult(0, 0, FALSE, 0)])
  ELSE IF \E k \in 1..Len(valid_samples) :
            r.files[valid_samples[k]].state \in {"missing", "unreadable"}
    THEN ReferenceGoes([given EXCEPT
           !.pc = "done",
           !.result = EmbeddingResult(Len(valid_samples), 0, FALSE, 0)])
  ELSE ReferenceGoes([given EXCEPT !.pc = "loop",
                                   !.durations = durations_of(r.files, valid_samples)])

\* the rest of enroll: "No valid samples", the total duration, the engine
PipelineCheck ==
  /\ reference.pc = "validate"
  /\ reference.skip_validation \/ reference.vidx = Len(reference.files)
  /\ IF reference.skip_validation
       THEN PipelineDelegate(reference, [k \in 1..Len(reference.files) |-> k])
     ELSE IF reference.valid = << >>
       THEN ReferenceGoes([reference EXCEPT !.pc = "done",
                                            !.result = EmbeddingResult(0, 0, FALSE, 0)])
     ELSE LET total_duration == sum_durations(reference.files, reference.valid) IN
          IF total_duration < min_total_duration
            THEN ReferenceGoes([reference EXCEPT
                   !.pc = "done",
                   !.result = EmbeddingResult(Len(reference.valid), total_duration,
                                              FALSE, 0)])
            ELSE PipelineDelegate(reference, reference.valid)

\* the list of files given to enroll, and skip_validation
InitPipeline ==
  /\ profile = create_voice_profile
  /\ samples = [t \in SampleType |-> 0]
  /\ jobs = [j \in JobIds |-> NoJob]
  /\ audio = [j \in JobIds |-> 0]
  /\ nextJob = 0
  /\ reqs = [r \in ReqIds |-> NoReq]
  /\ broker = {}
  /\ running = [j \in JobIds |-> NoRun]
  /\ ended = [j \in JobIds |-> NoEnd]
  /\ client = NoClient
  /\ access = NoAccess
  /\ deletion = NoDeletion
  /\ cover = NoCover
  /\ chunker = NoChunker
  /\ handler = NoHandler
  /\ trainer = NoTrainer
  /\ \E files \in FileLists(MaxSamples), skip_validation \in BOOLEAN :
       reference = [NoReference EXCEPT !.pc = "validate", !.files = files,
                                       !.skip_validation = skip_validation]

NextPipeline ==
  \/ PipelineValidateSample
  \/ PipelineCheck
  \/ EnrollSample
  \/ \E raised \in BOOLEAN : EnrollStore(raised)

SpecPipeline == InitPipeline /\ [][NextPipeline]_vars

----------------------------------------------------------------------------
TypeOK ==
  /\ profile.status \in VoiceProfileStatus
  /\ profile.speaking_status \in VoiceProfileStatus
  /\ profile.singing_status \in VoiceProfileStatus
  /\ \A j \in JobIds : jobs[j].status \in JobStatus \cup {"none"}
  /\ \A j \in JobIds : jobs[j].progress_percent \in 0..100
  /\ nextJob \in 0..MaxJobs

----------------------------------------------------------------------------
(***************************************************************************)
(* Properties.                                                             *)
(***************************************************************************)
\* C1: at most one enrollment job per mode of the profile is running or
\* scheduled to run (QUEUED, PROCESSING, or with a task message, first or
\* retry, waiting in the broker).
C1_OneLiveEnrollmentPerMode ==
  \A mode \in SampleType :
    Cardinality({j \in JobIds :
                   /\ jobs[j].kind = mode
                   /\ \/ jobs[j].status \in {"queued", "processing"}
                      \/ \E m \in broker : m.job = j}) <= 1

\* C2: create_tts_job called with a profile whose speaking_status is
\* PENDING, ENROLLING or FAILED raises ValueError and creates nothing; with
\* speaking_status READY and a text that is non-empty once trimmed it is
\* not rejected: it creates the job, sends the task and leaves the job
\* QUEUED (or the broker refuses the task and nothing is created), the row
\* being QUEUED when the transaction commits.
C2_TtsRequiresSpeakingReady ==
  [][\A r \in ReqIds :
       /\ (reqs[r].op = "create_tts" /\ reqs[r].phase = "loaded"
             /\ reqs'[r].phase # "loaded") =>
            /\ reqs[r].obj.speaking_status \in {"pending", "enrolling", "failed"} =>
                 /\ reqs'[r].phase = "rejected"
                 /\ jobs' = jobs /\ broker' = broker /\ nextJob' = nextJob
            /\ (reqs[r].obj.speaking_status = "ready" /\ Strip(reqs'[r].text) # << >>) =>
                 /\ reqs'[r].phase \in {"sent", "error"}
                 /\ reqs'[r].phase = "error" => broker' = broker /\ nextJob' = nextJob
                 /\ reqs'[r].phase = "sent" =>
                      /\ reqs'[r].row.kind = "tts"
                      /\ reqs'[r].row.status = "queued"
                      /\ \E m \in broker' \ broker : m.job = reqs'[r].job
            /\ Strip(reqs'[r].text) = << >> => reqs'[r].phase = "rejected"
       /\ (reqs[r].op = "create_tts" /\ reqs[r].phase = "sent"
             /\ reqs'[r].phase = "accepted") =>
            /\ jobs[reqs[r].job].status = "none"
            /\ jobs'[reqs[r].job].status = "queued"
    ]_vars

\* C2 witness: a TTS job was accepted for a profile loaded with
\* speaking_status READY, and its row is QUEUED.
C2_Witness ==
  \E r \in ReqIds :
    /\ reqs[r].op = "create_tts" /\ reqs[r].phase = "accepted"
    /\ reqs[r].obj.speaking_status = "ready"
    /\ Strip(reqs[r].text) # << >>
    /\ jobs[reqs[r].job].status = "queued"

\* C3: create_cover_job is rejected whenever the profile's singing_status
\* is PENDING, ENROLLING or FAILED, and is not rejected whenever
\* singing_status is READY and pitch_shift is within [-12, 12], whatever
\* the speaking status is.
C3_CoverRequiresSingingReady ==
  [][\A r \in ReqIds :
       (reqs[r].op = "create_cover" /\ reqs[r].phase = "loaded"
          /\ reqs'[r].phase # "loaded") =>
         /\ reqs[r].obj.singing_status \in {"pending", "enrolling", "failed"} =>
              reqs'[r].phase = "rejected"
         /\ (reqs[r].obj.singing_status = "ready"
               /\ -12 <= reqs'[r].pitch_shift /\ reqs'[r].pitch_shift <= 12) =>
              reqs'[r].phase \in {"sent", "error"}
    ]_vars

\* C4: enroll is rejected exactly when the profile has no sample of the
\* mode or the mode's status on the profile it is given is ENROLLING; a
\* rejected call changes nothing; a call that is not rejected creates the
\* job, sends the task and leaves the job QUEUED (or the broker refuses
\* the task and nothing is created).
C4_EnrollRejectedExactlyWhen ==
  [][\A r \in ReqIds :
       (reqs[r].op = "enroll" /\ reqs[r].phase = "loaded"
          /\ reqs'[r].phase # "loaded") =>
         LET mode == reqs[r].job_type
             mode_status == IF mode = "speaking" THEN reqs[r].obj.speaking_status
                            ELSE reqs[r].obj.singing_status IN
         /\ reqs'[r].phase = "rejected" <=>
              (samples[mode] = 0 \/ mode_status = "enrolling")
         /\ reqs'[r].phase = "rejected" =>
              jobs' = jobs /\ broker' = broker /\ nextJob' = nextJob /\ profile' = profile
         /\ reqs'[r].phase # "rejected" =>
              /\ reqs'[r].phase \in {"sent", "error"}
              /\ reqs'[r].phase = "sent" =>
                   /\ reqs'[r].row.kind = mode
                   /\ reqs'[r].row.status = "queued"
                   /\ \E m \in broker' \ broker : m.job = reqs'[r].job
    ]_vars

\* C4 witness: an enroll call was accepted for a mode whose status on the
\* profile was FAILED (a re-enrollment after a failure).
C4_Witness ==
  \E r \in ReqIds :
    /\ reqs[r].op = "enroll" /\ reqs[r].phase = "accepted"
    /\ reqs[r].obj[StatusField(reqs[r].job_type)] = "failed"
    /\ samples[reqs[r].job_type] > 0
    /\ jobs[reqs[r].job].status = "queued"

\* C5: no write moves a job's status backwards along
\* PENDING, QUEUED, PROCESSING, {COMPLETED | FAILED}.
C5_StatusNeverRegresses ==
  [][\A j \in JobIds :
       LET rank(st) == IF st = "none" THEN 0
                       ELSE IF st = "pending" THEN 1
                       ELSE IF st = "queued" THEN 2
                       ELSE IF st = "processing" THEN 3
                       ELSE 4 IN
       rank(jobs[j].status) <= rank(jobs'[j].status)
    ]_vars

\* C6: no write lowers a job's progress_percent.
C6_ProgressNeverDecreases ==
  [][\A j \in JobIds : jobs[j].progress_percent <= jobs'[j].progress_percent]_vars

\* C7: a job's error_message is non-empty only if its status is FAILED.
C7_ErrorMessageOnlyWhenFailed ==
  \A j \in JobIds : jobs[j].error_message # "" => jobs[j].status = "failed"

\* C8: a retry is scheduled only after a TransientInfrastructure failure:
\* never after InvalidInput, NotFound or an engine failure.
C8_OnlyTransientRetried ==
  \A m \in broker :
    m.retries > 0 => ended[m.job].exc \notin {"InvalidInput", "NotFound", "EngineFailure"}

\* C9: a task is executed at most 1 + max_retries times (4; 3 for cover),
\* one execution at a time; its k-th retry is scheduled with a countdown of
\* 60 * k seconds (120 * k for cover); and when the last permitted
\* execution has failed nothing more is scheduled and the job is FAILED.
C9_RetryChainEnds ==
  \A j \in JobIds :
    LET kind == jobs[j].kind
        ceiling == IF kind = "cover" THEN 2 ELSE 3
        base == IF kind = "cover" THEN 120 ELSE 60
        scheduled == {m \in broker : m.job = j} IN
    /\ ended[j].execs <= 1 + ceiling
    /\ Cardinality(scheduled) <= 1
    /\ running[j].pc # "idle" =>
         scheduled = {} /\ ended[j].execs = running[j].retries + 1
    /\ \A m \in scheduled :
         /\ m.retries = ended[j].execs
         /\ m.retries <= ceiling
         /\ m.countdown = base * m.retries
    /\ (ended[j].how = "failed" /\ ended[j].execs = 1 + ceiling) =>
         /\ scheduled = {}
         /\ running[j].pc = "idle"
         /\ jobs[j].status = "failed"

\* C9 witness: the task of a job has failed in all its 1 + max_retries
\* executions; nothing is scheduled and the job is FAILED.
C9_Witness ==
  \E j \in JobIds :
    /\ ended[j].how = "failed"
    /\ ended[j].execs = 1 + max_retries(jobs[j].kind)
    /\ broker = {}
    /\ jobs[j].status = "failed"

\* C10: when a time limit of the queue has ended an execution of a task,
\* the job is FAILED with an error message, and its profile is not left
\* ENROLLING in the job's mode.
C10_TimeLimitLeavesFailed ==
  \A j \in JobIds :
    (ended[j].timed /\ running[j].pc = "idle") =>
      /\ jobs[j].status = "failed"
      /\ jobs[j].error_message # ""
      /\ IsEnrollment(jobs[j].kind) => profile[StatusField(jobs[j].kind)] # "enrolling"

\* C11: train_rvc_model terminates: it goes on polling only while the
\* elapsed time has not exceeded the timeout, it raises TimeoutError only
\* at a poll with a non-terminal status whose elapsed time exceeds the
\* timeout, it makes at most Timeout / 2 + 2 polls, and every call ends.
C11_ClientTerminates ==
  /\ [](client.pc = "sleep" => client.elapsed <= Timeout)
  /\ []((client.pc = "done" /\ client.result.kind = "TimeoutError") =>
          /\ client.elapsed > Timeout
          /\ client.status \notin {"COMPLETED", "FAILED"})
  /\ [](client.poll_count <= Timeout \div 2 + 2)
  /\ <>(client.pc = "done")

\* C11 witness: a call has ended in TimeoutError after polling a job that
\* reported no terminal status.
C11_Witness ==
  /\ client.pc = "done"
  /\ client.result.kind = "TimeoutError"
  /\ client.poll_count > 1

\* C12: the first terminal status polled decides the outcome: COMPLETED
\* with success returns the payload unchanged, COMPLETED without success
\* raises "Training failed" with the payload's error text, FAILED raises
\* with the payload's error text, and no poll follows a terminal status.
C12_TerminalStatusDecides ==
  /\ (client.pc \in {"check", "sleep", "poll"} /\ client.poll_count > 0) =>
       client.status \notin {"COMPLETED", "FAILED"}
  /\ (client.pc = "done" /\ client.result.kind # "ConnectionError") =>
       /\ (client.status = "COMPLETED" /\ client.output.success) =>
            client.result = [kind |-> "return", message |-> << >>,
                             value |-> client.output]
       /\ (client.status = "COMPLETED" /\ ~client.output.success) =>
            /\ client.result.kind = "RuntimeError"
            /\ client.result.message =
                 <<"Training failed: ",
                   IF client.output.error = "absent" THEN "Unknown error"
                   ELSE client.output.error>>
       /\ client.status = "FAILED" =>
            /\ client.result.kind = "RuntimeError"
            /\ client.result.message[2] =
                 (IF client.output.error = "absent" THEN "Unknown error"
                  ELSE client.output.error)
       /\ client.status \in {"COMPLETED", "FAILED"} <=>
            client.result.kind \in {"return", "RuntimeError"}

\* C12 witness: a call has ended on a COMPLETED status whose payload says
\* success = false, after at least one non-terminal poll.
C12_Witness ==
  /\ client.pc = "done"
  /\ client.status = "COMPLETED"
  /\ ~client.output.success
  /\ client.output.error # "absent"
  /\ client.result.kind = "RuntimeError"
  /\ client.poll_count > 1

\* C13: counting polls from 1, the sleep after poll n is 2 seconds for n in
\* 1..10, 5 seconds for n in 11..30 and 10 seconds for n > 30.
C13_AdaptiveInterval ==
  client.pc = "sleep" =>
    client.wait_time = (IF client.poll_count <= 10 THEN 2
                        ELSE IF client.poll_count <= 30 THEN 5
                        ELSE 10)

\* C14: a TTS or cover job has a GeneratedAudio row if and only if its
\* status is COMPLETED, and it has at most one.
C14_AudioIffCompleted ==
  \A j \in JobIds :
    jobs[j].kind \in {"tts", "cover"} =>
      /\ audio[j] >= 1 <=> jobs[j].status = "completed"
      /\ audio[j] <= 1

\* C15: enroll is all-or-nothing.  A call whose task could not be enqueued
\* leaves no job row and the profile row as it was; a call that commits
\* leaves its job QUEUED with a task reference and the mode ENROLLING; no
\* job row is ever persisted PENDING; and the profile is ENROLLING in a
\* mode only while a job of that mode is QUEUED or PROCESSING.
C15_EnrollAllOrNothing ==
  /\ \A r \in ReqIds :
       (reqs[r].op = "enroll" /\ reqs[r].phase = "error") =>
         \A j \in JobIds : j > nextJob => jobs[j] = NoJob
  /\ \A r \in ReqIds :
       (reqs[r].op = "enroll" /\ reqs[r].phase = "accepted") =>
         /\ jobs[reqs[r].job].status = "queued"
         /\ jobs[reqs[r].job].celery_task_id
         /\ jobs[reqs[r].job].kind = reqs[r].job_type
         /\ profile[StatusField(reqs[r].job_type)] = "enrolling"
  /\ \A j \in JobIds : jobs[j].status # "pending"
  /\ \A mode \in SampleType :
       profile[StatusField(mode)] = "enrolling" =>
         \E j \in JobIds :
           jobs[j].kind = mode /\ jobs[j].status \in {"queued", "processing"}

\* C16: the persisted legacy fields equal the speaking-voice fields.
C16_LegacyFieldsInSync ==
  /\ profile.status = profile.speaking_status
  /\ profile.embedding_path = profile.chatterbox_embedding_path

\* C16 witness: the speaking enrollment has completed and a singing
\* enrollment has been committed after it.
C16_Witness ==
  /\ profile.speaking_status = "ready"
  /\ profile.chatterbox_embedding_path # ""
  /\ profile.singing_status = "enrolling"

\* C17: a sample of a mode is attached only while that mode's status is
\* PENDING or FAILED.
C17_SampleOnlyWhenPendingOrFailed ==
  [][\A t \in SampleType :
       samples'[t] > samples[t] =>
         profile[StatusField(t)] \in {"pending", "failed"}
    ]_vars

\* C18: a TTS or cover job's status is always one of PENDING, QUEUED,
\* PROCESSING, COMPLETED, FAILED: never CANCELLED.
C18_NeverCancelled ==
  \A j \in JobIds :
    jobs[j].kind \in {"tts", "cover"} =>
      jobs[j].status \in {"pending", "queued", "processing", "completed", "failed"}

\* C18 witness: the task of a TTS or cover job has failed in its last
\* permitted execution.
C18_Witness ==
  \E j \in JobIds :
    /\ jobs[j].kind \in {"tts", "cover"}
    /\ jobs[j].status = "failed"
    /\ running[j].pc = "idle"
    /\ broker = {}

\* C19: a request that names a profile, a TTS job or a cover job the caller
\* does not own is answered exactly as one naming no row at all: with the
\* endpoint's not-found response (or, where the body is validated before the
\* lookup and fails, with the validation error), the same whether the row
\* exists under another user or not, and no row is changed by it.
C19_NonOwnerSeesNotFound ==
  (access.pc = "done" /\ access.before.owner[Table(access.endpoint)] # access.user) =>
     /\ access.response =
          IF access.endpoint \in ApiCreateEndpoints /\ ~access.valid
            THEN Response(400, "ValidationError")
            ELSE NotFound(access.endpoint)
     /\ access.valid => access.response.status = 404
     /\ Database(access) = access.before

C19_Witness ==
  /\ access.pc = "done"
  /\ access.endpoint = "VoiceProfileViewSet.destroy"
  /\ access.user = "bob"
  /\ access.before.owner["profile"] = "alice"
  /\ access.owner["profile"] = "alice"
  /\ access.response = NotFound(access.endpoint)

\* C20: delete_voice_profile never ends with an exception of a blob delete:
\* whatever the storage answers for the sample files and the two artifact
\* keys (deleted, no such blob, ClientError, any other exception), the call
\* reaches voice_profile.delete() and returns, and then the profile row, its
\* sample rows and its enrollment-job rows are gone.
C20_DeleteRegardlessOfBlobs ==
  /\ [](deletion.pc # "raised")
  /\ [](deletion.row <=> deletion.pc # "returned")
  /\ [](deletion.pc = "returned" =>
          /\ SampleCount = 0
          /\ \A j \in JobIds : ~IsEnrollment(jobs[j].kind))
  /\ <>(deletion.pc = "returned")

C20_Witness ==
  /\ deletion.pc = "returned"
  /\ ~deletion.row
  /\ deletion.warnings >= 2
  /\ deletion.blobs.samples # {}
  /\ deletion.blobs.keys # {}
  /\ \E j \in JobIds : jobs[j].kind = "tts"

\* C21: the artifact the cover task has downloaded and hands to create_cover
\* is the profile's singing artifact, the object under rvc_model_path, and
\* not the speaking artifact under chatterbox_embedding_path.
C21_CoverUsesSingingArtifact ==
  \A j \in JobIds :
    (jobs[j].kind = "cover" /\ running[j].pc \in {"engine", "upload"}) =>
      /\ running[j].embedding = profile.rvc_model_path
      /\ running[j].embedding # profile.chatterbox_embedding_path

\* C22: when create_cover has returned, on whichever path, a working
\* directory it made itself exists exactly when keep_intermediates is true,
\* and at no moment of the call is a directory the caller supplied missing
\* once it exists.
C22_CleansOnlyOwnDirectory ==
  /\ (cover.pc = "returned" /\ cover.temp_dir) =>
        ("temp" \in cover.disk <=> cover.keep_intermediates)
  /\ ~cover.temp_dir => "temp" \notin cover.disk
  /\ (cover.work_dir = "existing"
        \/ (cover.work_dir = "new" /\ cover.calls # << >>)) =>
        "caller" \in cover.disk

C22_Witness ==
  /\ cover.pc = "returned"
  /\ cover.temp_dir
  /\ ~cover.keep_intermediates
  /\ ~cover.result.success
  /\ cover.calls = <<"separate", "convert">>
  /\ "temp" \notin cover.disk

\* C23: the stages run in the order separate, convert, mix, save and the
\* call stops at the first that fails, whether by its result or by an
\* exception; nothing is raised to the caller; and the failure result names
\* the intermediate files produced before the failure.
C23_StopsAtFirstFailure ==
  /\ \E n \in 0..4 : cover.calls = SubSeq(<<"separate", "convert", "mix", "save">>, 1, n)
  /\ cover.pc # "raised"
  /\ (cover.pc \in {"finally", "returned"} /\ ~cover.result.success) =>
        /\ ~cover.output
        /\ cover.result.vocals_path <=> "vocals" \in cover.produced
        /\ cover.result.instrumentals_path <=> "instrumentals" \in cover.produced
        /\ cover.result.converted_vocals_path <=> "converted_vocals" \in cover.produced
  /\ (cover.pc \in {"finally", "returned"} /\ cover.result.success) =>
        cover.calls = <<"separate", "convert", "mix", "save">>

\* C24: chunk_text, given a preprocessed text longer than max_text_length
\* whose sentences are each at most max_text_length long, returns chunks of
\* at most max_text_length characters each which, taken in order, are made
\* of the sentences of the text in their order.
C24_ChunksWithinLimit ==
  LET RECURSIVE Sentences(_)
      Sentences(chunks) ==
        IF chunks = << >> THEN << >>
        ELSE re_split(Head(chunks), << >>) \o Sentences(Tail(chunks))
  IN
  (/\ chunker.pc = "done"
   /\ Len(chunker.text) > chunker.max_text_length
   /\ \A i \in 1..Len(chunker.sentences) :
        Len(chunker.sentences[i]) <= chunker.max_text_length) =>
     /\ \A i \in 1..Len(chunker.chunks) :
          Len(chunker.chunks[i]) <= chunker.max_text_length
     /\ Sentences(chunker.chunks) = chunker.sentences

\* C25: a successful enrollment of a non-empty list of samples has taken as
\* reference the longest sample whose duration lies in [5, 15] seconds when
\* there is one, wherever it stands in the list, and the first sample when
\* there is none; sample_count is the length of the list and
\* total_duration_seconds the sum of the durations.
C25_ReferenceIsLongestInWindow ==
  LET d == reference.durations
      window == {i \in 1..Len(d) : 5 <= d[i] /\ d[i] <= 15}
      RECURSIVE Sum(_)
      Sum(s) == IF s = << >> THEN 0 ELSE Head(s) + Sum(Tail(s))
  IN
  (reference.pc = "done" /\ reference.result.success) =>
     /\ IF window # {}
          THEN /\ reference.result.source_file \in window
               /\ \A i \in window : d[i] <= d[reference.result.source_file]
          ELSE reference.result.source_file = 1
     /\ reference.result.sample_count = Len(d)
     /\ reference.result.total_duration_seconds = Sum(d)

\* C26: for a payload with sample URLs and an upload URL, when no download,
\* no stage of the training and not the upload has failed, the handler has
\* constructed the trainer, run train_model, uploaded the model, and
\* returns success = true.
C26_HandlerSucceeds ==
  (/\ handler.pc = "returned"
   /\ handler.sample_urls > 0
   /\ handler.upload_url
   /\ handler.faults = {}) =>
     /\ handler.constructed
     /\ handler.trained
     /\ handler.uploaded
     /\ handler.result.success

\* C27: the handler answers every payload with a result and raises nothing;
\* whenever something failed or the payload lacks its sample URLs or its
\* upload URL the result has success = false and an error text; and with no
\* sample URLs or no upload URL nothing is downloaded and no trainer is made.
C27_HandlerNeverRaises ==
  /\ handler.pc \in {"parse", "download", "returned"}
  /\ (handler.sample_urls = 0 \/ ~handler.upload_url) =>
        /\ handler.downloads = 0
        /\ ~handler.constructed
        /\ ~handler.trained
        /\ handler.config = NoHandler.config
  /\ (/\ handler.pc = "returned"
      /\ \/ handler.sample_urls = 0
         \/ ~handler.upload_url
         \/ handler.faults # {}) =>
        /\ ~handler.result.success
        /\ handler.result.error # "none"

C27_Witness ==
  /\ handler.pc = "returned"
  /\ handler.sample_urls > 0
  /\ ~handler.upload_url
  /\ handler.downloads = 0
  /\ handler.result = [success |-> FALSE, error |-> "No upload URL provided"]

\* C28: when run_singing_enrollment counts fewer than 3 singing samples, the
\* step leaves the job FAILED with an error text and the profile's
\* singing_status FAILED and ends the execution; and no execution is ever
\* generating presigned URLs, submitting to the remote GPU provider or
\* polling it after having counted fewer than 3 samples.
C28_TooFewSamplesFailsEarly ==
  /\ [](\A j \in JobIds :
          running[j].pc \in {"urls", "submit", "poll", "check", "finish", "complete"} =>
            running[j].total_samples >= 3)
  /\ [][\A j \in JobIds :
          (/\ running[j].pc = "count"
           /\ samples["singing"] < 3
           /\ running'[j].pc = "idle"
           /\ ended'[j].how = "failed"
           /\ ~ended'[j].timed) =>
             /\ ended'[j].exc = "InvalidInput"
             /\ jobs'[j].status = "failed"
             /\ jobs'[j].error_message # ""
             /\ profile'.singing_status = "failed"]_vars

C28_Witness ==
  \E j \in JobIds :
    /\ jobs[j].kind = "singing"
    /\ samples["singing"] < 3
    /\ ended[j].exc = "InvalidInput"
    /\ running[j].pc = "idle"
    /\ jobs[j].status = "failed"
    /\ profile.singing_status = "failed"

\* C29: every save of progress_callback in run_singing_enrollment follows the
\* message the remote-GPU client emitted: the submission message and the
\* queued message set progress_percent to 15, the GPU-allocated message sets
\* 20, and the messages containing "complete" ("Status: COMPLETED" and the
\* completion message "Training complete! (...)") set 95.
C29_CallbackMapsMessages ==
  [][\A j \in JobIds :
       LET t == running[j]
           u == running'[j] IN
       /\ (t.pc = "submit" /\ u.pc = "poll") => jobs'[j].progress_percent = 15
       /\ (t.pc = "poll" /\ u.pc = "check" /\ u.called) =>
            /\ u.last_status = "IN_QUEUE" => jobs'[j].progress_percent = 15
            /\ u.last_status = "IN_PROGRESS" => jobs'[j].progress_percent = 20
            /\ u.last_status = "COMPLETED" => jobs'[j].progress_percent = 95
       /\ (t.pc = "check" /\ u.pc = "finish") => jobs'[j].progress_percent = 95
    ]_vars

\* C30: train_model runs dataset preparation, preprocess, pitch extraction,
\* feature extraction and model training in that order; a stage is entered
\* only after every earlier one succeeded and, for the feature extraction
\* and the model training, only when the HuBERT and the pretrained weights
\* exist; after a stage that did not succeed nothing more is run and the
\* result is a failure, and a successful result has all five stages behind it.
C30_StagesInOrderStopAtFailure ==
  LET calls == trainer.calls
      five == SelectSeq(calls, LAMBDA c : c.stage # "index") IN
  /\ Len(five) <= Len(TrainingStages)
  /\ \A i \in 1..Len(five) : five[i].stage = TrainingStages[i]
  /\ \A i \in 1..Len(calls) : calls[i].stage = "index" => i = Len(TrainingStages) + 1
  /\ \A i \in 1..Len(calls) : \A k \in 1..(i - 1) : calls[k].outcome = "ok"
  /\ (\E i \in 1..Len(calls) : calls[i].stage = "feature") => trainer.hubert_model
  /\ (\E i \in 1..Len(calls) : calls[i].stage = "train") =>
       trainer.pretrain_g /\ trainer.pretrain_d
  /\ \A i \in 1..Len(five) :
       five[i].outcome # "ok" =>
         /\ trainer.pc = "returned"
         /\ ~trainer.result.success
         /\ trainer.result.error_message # "none"
         /\ Len(calls) = i
  /\ (trainer.pc = "returned" /\ trainer.result.success) =>
       /\ Len(five) = Len(TrainingStages)
       /\ \A i \in 1..Len(five) : five[i].outcome = "ok"

C30_Witness ==
  /\ trainer.pc = "returned"
  /\ Len(trainer.calls) = 3
  /\ trainer.calls[3] = [stage |-> "f0", outcome |-> "exit"]
  /\ ~trainer.result.success
  /\ trainer.result.error_message = "F0 extraction failed"

C32_ExceptionsBecomeFailureWithText ==
  (/\ trainer.pc = "returned"
   /\ \/ trainer.raised
      \/ \E i \in 1..Len(trainer.calls) : trainer.calls[i].outcome \in {"raised", "failed"}) =>
     /\ ~trainer.result.success
     /\ trainer.result.error_message = "exception"

\* C33: the percentages passed to progress_callback during one train_model
\* run never decrease.
C33_ReportedPercentagesNeverDecrease ==
  \A i \in 1..Len(trainer.reported) : \A k \in i..Len(trainer.reported) :
    trainer.reported[i] <= trainer.reported[k]

\* C34: when synthesize has split the text into several chunks, the engine
\* is called on the chunks in their order, each call only after every
\* earlier one succeeded; when a call fails synthesize returns that chunk's
\* failure result, no later chunk has been given to the engine and no
\* output file is written.
C34_FirstFailingChunkEndsRun ==
  LET calls == chunker.engine_calls IN
  Len(chunker.chunks) > 1 =>
    /\ \A i \in 1..Len(calls) : calls[i].chunk = i
    /\ \A i \in 1..Len(calls) :
         calls[i].outcome = "failed" =>
           /\ Len(calls) = i
           /\ chunker.pc = "returned"
           /\ chunker.result = engine_synthesize(i, "failed")
           /\ ~chunker.saved

C34_Witness ==
  /\ chunker.pc = "returned"
  /\ Len(chunker.chunks) = 3
  /\ Len(chunker.engine_calls) = 2
  /\ chunker.engine_calls[1].outcome = "ok"
  /\ chunker.engine_calls[2].outcome = "failed"
  /\ ~chunker.result.success

\* C35: with validation not skipped, once the pipeline's enroll has decided,
\* the backend's enroll was called if and only if some sample is a readable
\* file of 3 to 30 seconds and those samples' durations add up to at least
\* 10 seconds; the backend was given exactly those samples in their
\* original order; and every sample was validated, whatever the samples
\* before it were.
C35_BackendGetsExactlyValidSamples ==
  LET files == reference.files
      passes(i) == /\ files[i].state = "audio"
                   /\ 3 <= files[i].duration
                   /\ files[i].duration <= 30
      RECURSIVE Passing(_)
      Passing(i) ==
        IF i > Len(files) THEN << >>
        ELSE IF passes(i) THEN <<i>> \o Passing(i + 1) ELSE Passing(i + 1)
      RECURSIVE Total(_)
      Total(v) == IF v = << >> THEN 0 ELSE files[Head(v)].duration + Total(Tail(v))
  IN
  (reference.pc \in {"loop", "done"} /\ ~reference.skip_validation) =>
    /\ reference.called <=> (Passing(1) # << >> /\ Total(Passing(1)) >= 10)
    /\ reference.called => reference.received = Passing(1)
    /\ reference.vidx = Len(files)
    /\ Len(reference.valid) + Len(reference.errors) = Len(files)

C35_Witness ==
  /\ reference.pc = "done"
  /\ ~reference.skip_validation
  /\ Len(reference.files) = 3
  /\ reference.files[1].state = "missing"
  /\ reference.files[2] = [state |-> "audio", duration |-> 30]
  /\ reference.files[3] = [state |-> "audio", duration |-> 31]
  /\ reference.called
  /\ reference.received = <<2>>
  /\ reference.result.success

\* C36: an enroll call for one mode never changes the persisted status of
\* the other mode: the write of enroll_voice_profile for speaking leaves
\* singing_status as the last singing operation wrote it, and the write
\* for singing leaves speaking_status as it was.
C36_ModesIndependent ==
  [][\A r \in ReqIds :
       (/\ reqs[r].op = "enroll"
        /\ reqs[r].phase = "sent"
        /\ reqs'[r].phase = "accepted") =>
          /\ reqs[r].job_type = "speaking" =>
               profile'.singing_status = profile.singing_status
          /\ reqs[r].job_type = "singing" =>
               profile'.speaking_status = profile.speaking_status
    ]_vars

\* C37: a job that a create or enroll call has committed as QUEUED still
\* has its task on the broker, so that a fair worker moves it to PROCESSING:
\* no job is QUEUED with its task already consumed.
C37_QueuedJobHasItsTask ==
  \A j \in JobIds :
    jobs[j].status = "queued" => \E m \in broker : m.job = j

\* C38: whenever an enrollment job is PROCESSING, on its first execution or
\* on a retry, the profile's status for the job's mode is ENROLLING.
C38_ProcessingMeansEnrolling ==
  \A j \in JobIds :
    (IsEnrollment(jobs[j].kind) /\ jobs[j].status = "processing") =>
      profile[StatusField(jobs[j].kind)] = "enrolling"

\* C39: whenever no enrollment task of a mode is on the broker or running,
\* the mode's status reflects the most recently created enrollment job of
\* that mode: READY if that job is COMPLETED, FAILED if it is FAILED.
C39_StatusReflectsLatestJob ==
  \A t \in SampleType :
    LET of_mode == {j \in JobIds : jobs[j].kind = t}
        latest == CHOOSE j \in of_mode : \A k \in of_mode : k <= j IN
    (/\ of_mode # {}
     /\ ~\E m \in broker : m.kind = t
     /\ \A j \in of_mode : running[j].pc = "idle") =>
       /\ jobs[latest].status = "completed" => profile[StatusField(t)] = "ready"
       /\ jobs[latest].status = "failed" => profile[StatusField(t)] = "failed"

\* C40: in every reachable state a profile whose speaking_status is READY
\* has a non-empty chatterbox_embedding_path, and a profile whose
\* singing_status is READY has a non-empty rvc_model_path.
C40_ReadyHasArtifact ==
  /\ profile.speaking_status = "ready" => profile.chatterbox_embedding_path # ""
  /\ profile.singing_status = "ready" => profile.rvc_model_path # ""

C40_Witness ==
  /\ profile.speaking_status = "ready"
  /\ profile.chatterbox_embedding_path = EmbeddingKey
  /\ profile.singing_status = "ready"
  /\ profile.rvc_model_path = ModelKey

====
